---- MODULE Spec2Model ----
(***************************************************************************)
(* Model of the rule-pack merger (src/src/app/rulepack_merge.py), of the   *)
(* merge run that persists it (src/src/step2b_generate_rulepacks_model.py),*)
(* of the retriever (src/models/retriever/build_index.py, search.py), of   *)
(* the serving process (src/models/inference/predict.py), of the rule-pack *)
(* generator (src/src/app/model_rulepack.py) and of the chunker            *)
(* (src/src/app/chunker.py).                                               *)
(*                                                                         *)
(* Python values are modelled as follows.                                  *)
(*   str    a sequence of one-character strings, "1.10" is                 *)
(*          <<"1", ".", "1", "0">>                                         *)
(*   None   the value None below                                           *)
(*   dict   a function whose DOMAIN is the set of keys                     *)
(*   list   a sequence                                                     *)
(***************************************************************************)
EXTENDS Integers, Sequences, FiniteSets, TLC

VARIABLES
    rp_path,      \* step2b main: config/regulators/<ns>.yaml, [exists, content]
    rp_new,       \* step2b main: the rule-pack handed to merge_rulepacks as `new`
    rp_old,       \* step2b main: the result of _load_yaml(rp_path)
    rp_merged,    \* step2b main: the result of merge_rulepacks(rp_old, rp_new)
    pc,           \* position of the merge run
    index_file,   \* indices/<ns>/articles.index: [exists, vectors]
    mapping_file, \* indices/<ns>/mapping.json: [exists, articles]
    build,        \* build_index main: its locals arts and index
    bpc,          \* position of build_index main
    searcher,     \* the RegulatorSearcher of the serving process, or NoSearcher
    last,         \* the last call of RegulatorSearcher.search and what it returned
    pipeline,     \* the InferencePipeline of the serving process: its self.searcher
    heap,         \* the RegulatorSearcher objects constructed so far
    flight,       \* a call of InferencePipeline.run that is inside search
    reply,        \* what the last call on the pipeline returned or raised
    runs,         \* the locals of merge runs of step2b started side by side
    doc,          \* the text handed to RulepackGenerator.segment
    segs,         \* what segment returned for doc, NotCalled before the call
    st_model,     \* RulepackGenerator.model: which embedding model it loaded
    doc_texts,    \* build_rulepack: its argument doc_texts
    cin,          \* the argument segs of classify_domain (segs of build_rulepack)
    labeled,      \* what classify_domain returned, NotCalled before the call
    built,        \* what build_rulepack returned, NotCalled before the return
    gpc,          \* position of the call of build_rulepack or classify_domain
    loop,         \* a sliding-window loop: its function, text length and locals
    objs,         \* the dict and list objects of a call of merge_rulepacks
    call          \* that call: its arguments, the objects before it, its result

mergeVars == <<rp_new, rp_old, rp_merged, pc>>
indexVars == <<index_file, mapping_file, build, bpc, searcher, last>>
serveVars == <<pipeline, heap, flight, reply>>
segVars == <<doc, segs>>
genVars == <<st_model, doc_texts, cin, labeled, built, gpc>>
loopVars == <<loop>>
frameVars == <<objs, call>>
vars == <<rp_path, mergeVars, indexVars, serveVars, runs, segVars, genVars, loopVars,
          frameVars>>

-----------------------------------------------------------------------------
(* Python values *)

None == <<"<None>">>

EmptyDict == [k \in {} |-> None]

Falsy(v) == v = None \/ v = <<>>

Has(d, k) == k \in DOMAIN d

\* d.get(k, default)
Get(d, k, default) == IF k \in DOMAIN d THEN d[k] ELSE default

\* d[k] = v
DictSet(d, k, v) == [x \in (DOMAIN d) \cup {k} |-> IF x = k THEN v ELSE d[x]]

\* d.setdefault(k, v)
SetDefault(d, k, v) == IF k \in DOMAIN d THEN d ELSE DictSet(d, k, v)

\* {**a, **b}
DictMerge(a, b) == [x \in (DOMAIN a) \cup (DOMAIN b) |-> IF x \in DOMAIN b THEN b[x] ELSE a[x]]

Digits == {"0", "1", "2", "3", "4", "5", "6", "7", "8", "9"}

\* ord(c) for the characters the model uses
Ord(c) ==
    CASE c = "." -> 46
      [] c = "0" -> 48 [] c = "1" -> 49 [] c = "2" -> 50 [] c = "3" -> 51
      [] c = "4" -> 52 [] c = "5" -> 53 [] c = "6" -> 54 [] c = "7" -> 55
      [] c = "8" -> 56 [] c = "9" -> 57
      [] c = "F" -> 70 [] c = "J" -> 74 [] c = "N" -> 78 [] c = "Q" -> 81
      [] c = "R" -> 82
      [] c = "a" -> 97 [] c = "b" -> 98 [] c = "q" -> 113 [] c = "r" -> 114
      [] c = "x" -> 120 [] c = "\n" -> 10

\* str.upper() on one character
UpperChar(c) ==
    CASE c = "a" -> "A" [] c = "b" -> "B" [] c = "q" -> "Q" [] c = "r" -> "R"
      [] c = "c" -> "C" [] c = "d" -> "D" [] c = "g" -> "G" [] c = "k" -> "K"
      [] c = "l" -> "L"
      [] OTHER -> c

\* s.upper()
Upper(s) == [i \in 1..Len(s) |-> UpperChar(s[i])]

Min(a, b) == IF a <= b THEN a ELSE b

-----------------------------------------------------------------------------
(* _natkey and the order sorted() derives from it *)

\* int(t) for a run of decimal digits
RECURSIVE ParseInt(_)
ParseInt(t) ==
    IF t = <<>> THEN 0
    ELSE 10 * ParseInt(SubSeq(t, 1, Len(t) - 1)) + (Ord(t[Len(t)]) - 48)

\* re.split(r"(\d+)", s): text and digit-run tokens alternate, a text token first
\* and last (either may be empty). acc holds the finished tokens, cur the open one;
\* the open token is text exactly when Len(acc) is even.
RECURSIVE ReSplit(_, _, _, _)
ReSplit(s, i, cur, acc) ==
    IF i > Len(s)
    THEN IF Len(acc) % 2 = 0 THEN Append(acc, cur) ELSE acc \o <<cur, <<>>>>
    ELSE IF (s[i] \in Digits) = (Len(acc) % 2 = 1)
         THEN ReSplit(s, i + 1, Append(cur, s[i]), acc)
         ELSE ReSplit(s, i + 1, <<s[i]>>, Append(acc, cur))

\* tuple(int(t) if t.isdigit() else t for t in re.split(r"(\d+)", aid)):
\* the even positions (1-based) hold the integers, the odd ones the text
StrKey(aid) == <<aid>>

_natkey(aid) ==
    LET toks == ReSplit(aid, 1, <<>>, <<>>)
    IN  [i \in 1..Len(toks) |-> IF i % 2 = 0 THEN ParseInt(toks[i]) ELSE toks[i]]

\* str < str: lexicographic by code point
RECURSIVE StrLess(_, _)
StrLess(a, b) ==
    IF a = <<>> THEN b # <<>>
    ELSE IF b = <<>> THEN FALSE
    ELSE IF a[1] # b[1] THEN Ord(a[1]) < Ord(b[1])
    ELSE StrLess(Tail(a), Tail(b))

\* tuple < tuple: the first differing position decides, a proper prefix is smaller
RECURSIVE KeyLess(_, _, _)
KeyLess(k1, k2, i) ==
    IF i > Len(k1) THEN i <= Len(k2)
    ELSE IF i > Len(k2) THEN FALSE
    ELSE IF k1[i] = k2[i] THEN KeyLess(k1, k2, i + 1)
    ELSE IF i % 2 = 0 THEN k1[i] < k2[i] ELSE StrLess(k1[i], k2[i])

\* the sort key of merge_rulepacks: lambda a: _natkey(a.get("article_id", ""))
ArticleKey(a) == _natkey(Get(a, "article_id", <<>>))

\* sorted(xs, key=...): stable, so x goes behind every element whose key is not greater
InsertStable(sorted, x) ==
    LET after == {i \in 1..Len(sorted) : KeyLess(ArticleKey(x), ArticleKey(sorted[i]), 1)}
        pos == IF after = {} THEN Len(sorted) + 1
               ELSE CHOOSE i \in after : \A j \in after : i <= j
    IN  SubSeq(sorted, 1, pos - 1) \o <<x>> \o SubSeq(sorted, pos, Len(sorted))

RECURSIVE SortedByNatkey(_)
SortedByNatkey(xs) ==
    IF xs = <<>> THEN <<>>
    ELSE InsertStable(SortedByNatkey(SubSeq(xs, 1, Len(xs) - 1)), xs[Len(xs)])

-----------------------------------------------------------------------------
(* merge_rulepacks *)

\* what a call returns when it raises instead
Raise(kind) == [raise |-> kind]

Raised(r) == Has(r, "raise")

\* ex_index[key] = val on an insertion-ordered dict whose values carry their key
\* in article_id: an existing key keeps its position, a new key goes last
AppendAlways(idx, key, val) == Append(idx, val)

IndexPut(idx, key, val) ==
    IF \E i \in 1..Len(idx) : idx[i]["article_id"] = key
    THEN [i \in 1..Len(idx) |-> IF idx[i]["article_id"] = key THEN val ELSE idx[i]]
    ELSE Append(idx, val)

\* ex_index.get(key, {})
IndexGet(idx, key) ==
    IF \E i \in 1..Len(idx) : idx[i]["article_id"] = key
    THEN idx[CHOOSE i \in 1..Len(idx) : idx[i]["article_id"] = key]
    ELSE EmptyDict

RECURSIVE ExIndexTruthy(_)
ExIndexTruthy(arts) ==
    IF arts = <<>> THEN <<>>
    ELSE LET prev == ExIndexTruthy(SubSeq(arts, 1, Len(arts) - 1))
             a == arts[Len(arts)]
         IN  IF ~Falsy(Get(a, "article_id", None))
             THEN IndexPut(prev, a["article_id"], a) ELSE prev

ExIndexKeepAll(arts) == SelectSeq(arts, LAMBDA a : Has(a, "article_id"))

\* {a["article_id"]: a for a in out.get("articles", []) if "article_id" in a}
RECURSIVE ExIndex(_)
ExIndex(arts) ==
    IF arts = <<>> THEN <<>>
    ELSE LET prev == ExIndex(SubSeq(arts, 1, Len(arts) - 1))
             a == arts[Len(arts)]
         IN  IF Has(a, "article_id") THEN IndexPut(prev, a["article_id"], a) ELSE prev

\* {**ex_index.get(aid, {}), **art}
OverwriteWhole(old, art) == art

KeepExisting(old, art) == DictMerge(art, old)

MergedArticle(old, art) == DictMerge(old, art)

\* for art in new.get("articles", []): skip a missing or empty id, else merge by id
RECURSIVE MergeArticles(_, _)
MergeArticles(idx, news) ==
    IF news = <<>> THEN idx
    ELSE LET prev == MergeArticles(idx, SubSeq(news, 1, Len(news) - 1))
             art == news[Len(news)]
             aid == Get(art, "article_id", None)
         IN  IF Falsy(aid) THEN prev
             ELSE IndexPut(prev, aid, MergedArticle(IndexGet(prev, aid), art))

\* out.get("domains") or new.get("domains", [])
DomainsAlwaysExisting(out, new) == Get(out, "domains", Get(new, "domains", <<>>))

MergedDomains(out, new) ==
    IF Has(out, "domains") /\ out["domains"] # <<>>
    THEN out["domains"]
    ELSE Get(new, "domains", <<>>)

\* out.setdefault(k, v) for id, jurisdiction and name
SetWhenEmpty(out, k, v) ==
    IF Has(out, k) /\ ~Falsy(out[k]) THEN out ELSE DictSet(out, k, v)

TopDefault(out, k, v) == SetDefault(out, k, v)

merge_rulepacks(existing, new) ==
    LET out0 == IF existing # EmptyDict THEN existing ELSE EmptyDict
        out1 == TopDefault(out0, "id", Get(new, "id", None))
        out2 == TopDefault(out1, "jurisdiction", Get(new, "jurisdiction", <<>>))
        \* the default of new.get("name", ...) is evaluated before the call:
        \* out.get("id", "").upper() raises AttributeError on None
        idnow == Get(out2, "id", <<>>)
        out3 == TopDefault(out2, "name", Get(new, "name", Upper(idnow)))
        out4 == DictSet(out3, "domains", MergedDomains(out3, new))
        ex_index == MergeArticles(ExIndex(Get(out4, "articles", <<>>)),
                                  Get(new, "articles", <<>>))
    IN  IF idnow = None THEN Raise("AttributeError")
        ELSE DictSet(out4, "articles", SortedByNatkey(ex_index))

-----------------------------------------------------------------------------
(* The retriever: nothing built, nothing loaded, nothing searched *)

NoFile == [exists |-> FALSE]
NoSearcher == [ready |-> FALSE]
NoCall == [called |-> FALSE]
NoBuild == [arts |-> <<>>, index |-> <<>>]

NoRuns == <<>>

NotCalled == [called |-> FALSE]

NoPipeline == [constructed |-> FALSE]
NoFlight == [running |-> FALSE]
NoReply == [op |-> "none"]

ServeIdle ==
    /\ pipeline = NoPipeline
    /\ heap = <<>>
    /\ flight = NoFlight
    /\ reply = NoReply

NoLoop == [running |-> FALSE]

GenIdle ==
    /\ st_model = 0
    /\ doc_texts = <<>>
    /\ cin = <<>>
    /\ labeled = NotCalled
    /\ built = NotCalled
    /\ gpc = "idle"

LoopIdle == loop = NoLoop

FrameIdle ==
    /\ objs = <<>>
    /\ call = NoCall

IndexIdle ==
    /\ index_file = NoFile
    /\ mapping_file = NoFile
    /\ build = NoBuild
    /\ bpc = "start"
    /\ searcher = NoSearcher
    /\ last = NoCall
    /\ ServeIdle

-----------------------------------------------------------------------------
(* The merge run of step2b main, for one namespace *)

\* _load_yaml(p): {} for a missing file, else the document (or {} for an empty one).
\* The documents here hold str, None, int, list and dict values with str keys, which
\* yaml.safe_dump and yaml.safe_load carry unchanged (a str that looks like a number
\* is written quoted), so a file is modelled by the document it holds.
LoadMissingFails(p) == IF ~p.exists THEN Raise("FileNotFoundError") ELSE p.content

_load_yaml(p) ==
    IF ~p.exists THEN EmptyDict
    ELSE IF p.content = EmptyDict THEN EmptyDict ELSE p.content

\* _dump_yaml(p, obj)
_dump_yaml(p, obj) == [exists |-> TRUE, content |-> obj]

\* bound: the articles of the rule-pack file and of the incoming rule-pack together
MaxArts == 3

\* Articles the inputs are drawn from. Full articles carry the five fields that
\* build_rulepack emits (confidence in thousandths); the others are hand-edited
\* or partial entries.
ArtFull2a ==
    [article_id |-> <<"2">>, title |-> <<"a">>, text |-> <<"a">>,
     domain |-> <<"a">>, confidence |-> 900]
ArtFull2b ==
    [article_id |-> <<"2">>, title |-> <<"b">>, text |-> <<"b">>,
     domain |-> None, confidence |-> 200]
ArtPart2 == [article_id |-> <<"2">>, title |-> <<"q">>]
ArtFull10 ==
    [article_id |-> <<"1", "0">>, title |-> <<"a">>, text |-> <<"a">>,
     domain |-> <<"b">>, confidence |-> 500]
ArtPart02 == [article_id |-> <<"0", "2">>, domain |-> <<"a">>]
ArtEmptyId == [article_id |-> <<>>, title |-> <<"a">>]
ArtNoId == [title |-> <<"b">>]

Articles == {ArtFull2a, ArtFull2b, ArtPart2, ArtFull10, ArtPart02, ArtEmptyId, ArtNoId}

DomA == [id |-> <<"a">>, name |-> <<"A">>]
DomB == [id |-> <<"b">>, name |-> <<"B">>]

\* the file before the first run: an empty document, the one ensure_rulepack
\* writes, the one a previous run with jurisdiction="" left behind with its
\* name and domains emptied by hand, the one generate_rulepack writes
TopNone == EmptyDict
TopRegistered ==
    [id |-> <<"q">>, jurisdiction |-> <<"J">>, name |-> <<"N">>, domains |-> <<DomA>>,
     articles |-> <<>>]
TopBlank ==
    [id |-> <<"q">>, jurisdiction |-> <<>>, name |-> <<>>, domains |-> <<>>,
     articles |-> <<>>]
TopLegacy == [regulator |-> <<"q">>]

ExistingTops == {TopNone, TopRegistered, TopBlank, TopLegacy}

\* the incoming rule-pack: an empty one, the one build_rulepack composes
\* (jurisdiction "", name ns.upper(), the domain catalog), and one with an id and
\* a jurisdiction only
NewNone == EmptyDict
NewGenerated ==
    [id |-> <<"r">>, jurisdiction |-> <<>>, name |-> <<"R">>, domains |-> <<DomB>>,
     articles |-> <<>>]
NewIdOnly == [id |-> <<"r">>, jurisdiction |-> <<"b">>]

NewTops == {NewNone, NewGenerated, NewIdOnly}

\* a rule-pack document with the given articles
WithArticles(top, arts) == IF arts = <<>> THEN top ELSE DictSet(top, "articles", arts)

\* the incoming rule-packs a run may be handed when the file holds n articles
Incoming(n) ==
    UNION {{WithArticles(ntop, news) : ntop \in NewTops, news \in [1..m -> Articles]} :
           m \in 0..(MaxArts - n)}

MergeInit ==
    /\ \E n \in 0..MaxArts : \E arts \in [1..n -> Articles] : \E top \in ExistingTops :
         \E present \in BOOLEAN :
           /\ present \/ (n = 0 /\ top = TopNone)
           /\ rp_path = [exists |-> present, content |-> WithArticles(top, arts)]
           /\ rp_new \in Incoming(n)
    /\ rp_old = EmptyDict
    /\ rp_merged = EmptyDict
    /\ pc = "start"
    /\ IndexIdle
    /\ runs = NoRuns
    /\ doc = <<>>
    /\ segs = NotCalled
    /\ GenIdle /\ LoopIdle /\ FrameIdle

\* rp_old = _load_yaml(rp_path)
LoadYaml ==
    /\ pc = "start"
    /\ rp_old' = _load_yaml(rp_path)
    /\ pc' = IF Raised(rp_old') THEN "failed" ELSE "loaded"
    /\ UNCHANGED <<rp_path, rp_new, rp_merged, indexVars, serveVars, runs, segVars,
                 genVars, loopVars, frameVars>>

\* rp_merged = merge_rulepacks(rp_old, rp_new)
MergeRulepacks ==
    /\ pc = "loaded"
    /\ rp_merged' = merge_rulepacks(rp_old, rp_new)
    /\ pc' = IF Raised(rp_merged') THEN "failed" ELSE "merged"
    /\ UNCHANGED <<rp_path, rp_new, rp_old, indexVars, serveVars, runs, segVars,
                 genVars, loopVars, frameVars>>

\* _dump_yaml(rp_path, rp_merged), which ends the run: its locals are gone
DumpYaml ==
    /\ pc = "merged"
    /\ rp_path' = _dump_yaml(rp_path, rp_merged)
    /\ rp_new' = EmptyDict
    /\ rp_old' = EmptyDict
    /\ rp_merged' = EmptyDict
    /\ pc' = "written"
    /\ UNCHANGED <<indexVars, serveVars, runs, segVars,
                 genVars, loopVars, frameVars>>

\* the next run of step2b main on the same namespace
NextRun ==
    /\ pc = "written"
    /\ rp_new' \in Incoming(Len(rp_path.content["articles"]))
    /\ pc' = "start"
    /\ UNCHANGED <<rp_path, rp_old, rp_merged, indexVars, serveVars, runs, segVars,
                 genVars, loopVars, frameVars>>

MergeNext == LoadYaml \/ MergeRulepacks \/ DumpYaml \/ NextRun

SpecMerge == MergeInit /\ [][MergeNext]_vars

-----------------------------------------------------------------------------
(* The retriever model: SentenceTransformer.encode and faiss.IndexFlatIP *)

\* The unit vectors of the embedding space, scaled by 5: the inner product
\* of a vector with itself is 25, the cosine 1.0.
UnitVectors == << <<5, 0>>, <<4, 3>>, <<3, 4>>, <<0, 5>>, <<-3, 4>>, <<-4, 3>> >>

\* encode(.., normalize_embeddings=True) of one string: a deterministic
\* function of the string, not injective, into the unit vectors.
Embed(s) ==
    LET h == Len(s) + (IF s = <<>> THEN 0 ELSE Ord(s[1]))
    IN  UnitVectors[(h % Len(UnitVectors)) + 1]

Dot(u, v) == u[1] * v[1] + u[2] * v[2]

\* The score faiss reports next to a label of -1: below every inner product.
PadScore == 0 - Dot(UnitVectors[1], UnitVectors[1]) - 1

\* f"{v}" of a str or of None
Format(v) == IF v = None THEN <<"N", "o", "n", "e">> ELSE v

\* the order in which the texts of the articles are handed to the model
NaturalOrder(arts) == SortedByNatkey(arts)

EncodeOrder(arts) == arts

\* texts = [f"{a.get('title','')}\n\n{a.get('text','')}" for a in arts]
Texts(arts) ==
    LET given == EncodeOrder(arts)
    IN  [i \in 1..Len(given) |->
            Format(Get(given[i], "title", <<>>)) \o <<"\n", "\n">>
                \o Format(Get(given[i], "text", <<>>))]

\* model.encode(texts, ...): one row per text, in the order of the texts
Encode(texts) == [i \in 1..Len(texts) |-> Embed(texts[i])]

\* json.loads(json.dumps(arts)): str, None and numbers of a list of dicts
\* with str keys come back as they went in
JsonRoundTrip(arts) == arts

\* The orders (best first) in which IndexFlatIP may report its n rows for the
\* query vector q: score descending, rows of equal score in either order.
ScoreOrders(index, q) ==
    {p \in Permutations(1..Len(index)) :
        \A i \in 1..(Len(index) - 1) : Dot(index[p[i]], q) >= Dot(index[p[i + 1]], q)}

\* index.search(q, k): k labels (0-based rows) and k scores; the positions
\* beyond the n rows of the index hold label -1 and PadScore.
ReturnedLen(k, n) == k

FaissSearch(index, q, k, order) ==
    LET n == Len(index)
        m == ReturnedLen(k, n)
    IN  [labels |-> [r \in 1..m |-> IF r <= n THEN order[r] - 1 ELSE -1],
         scores |-> [r \in 1..m |-> IF r <= n THEN Dot(index[order[r]], q) ELSE PadScore]]

\* list[i] of Python for an int i: negative i counts from the end
ListIndex(list, i) ==
    LET n == Len(list)
    IN  IF i >= 0 /\ i < n THEN list[i + 1]
        ELSE IF i < 0 /\ i >= 0 - n THEN list[n + i + 1]
        ELSE Raise("IndexError")

PreviewLimit == 4000

\* art.get("text"): None when the article has no text, and None[:4000]
\* is a TypeError
HitText(art) == Get(art, "text", None)

\* v[:limit] of a str
Slice(v, limit) == SubSeq(v, 1, Min(limit, Len(v)))

\* the dict search appends for one (rank, label, score)
Hit(mapping, rank, i, s) ==
    LET art == ListIndex(mapping, i)
    IN  IF Raised(art) THEN art
        ELSE IF HitText(art) = None THEN Raise("TypeError")
        ELSE [rank |-> rank, score |-> s,
              article_id |-> Get(art, "article_id", None),
              title |-> Get(art, "title", None),
              domain |-> Get(art, "domain", None),
              confidence |-> Get(art, "confidence", None),
              text |-> Slice(HitText(art), PreviewLimit)]

\* RegulatorSearcher.search: out is the list returned; when the loop raises,
\* nothing is returned and error is the exception of the first failing rank
search(self, text, k, order) ==
    LET q == Embed(text)
        found == FaissSearch(self.index, q, k, order)
        out == [r \in 1..Len(found.labels) |->
                   Hit(self.mapping, r, found.labels[r], found.scores[r])]
        bad == {r \in 1..Len(out) : Raised(out[r])}
    IN  [called |-> TRUE, text |-> text, k |-> k,
         labels |-> found.labels, scores |-> found.scores,
         out |-> IF bad = {} THEN out ELSE <<>>,
         error |-> IF bad = {} THEN "" ELSE
                   out[CHOOSE r \in bad : \A r2 \in bad : r <= r2].raise]

-----------------------------------------------------------------------------
(* build_index main and the serving process, for one namespace *)

MaxIndexed == 2
MaxK == 3

LongText == [i \in 1..(PreviewLimit + 1) |-> "x"]

IdxShort == [article_id |-> <<"1">>, title |-> <<"a">>, text |-> <<"a", "b">>,
             domain |-> <<"a">>, confidence |-> 900]
IdxLong == [article_id |-> <<"2">>, title |-> <<"b">>, text |-> LongText,
            domain |-> None, confidence |-> 200]
IdxNoTitle == [article_id |-> <<"1", "0">>, text |-> <<"q">>]
IdxNoText == [article_id |-> <<"3">>, title |-> <<"q">>]
IndexedArticles == {IdxShort, IdxLong, IdxNoTitle, IdxNoText}

QueryTexts == {<<"a", "b">>, <<"q">>}

ArticleLists == UNION {[1..n -> IndexedArticles] : n \in 0..MaxIndexed}

IndexInit ==
    /\ \/ rp_path = [exists |-> FALSE, content |-> EmptyDict]
       \/ \E arts \in ArticleLists :
              rp_path = [exists |-> TRUE,
                         content |-> DictSet(TopRegistered, "articles", arts)]
    /\ rp_new = EmptyDict
    /\ rp_old = EmptyDict
    /\ rp_merged = EmptyDict
    /\ pc = "start"
    /\ IndexIdle
    /\ runs = NoRuns
    /\ doc = <<>>
    /\ segs = NotCalled
    /\ GenIdle /\ LoopIdle /\ FrameIdle

\* load_rulepack
load_rulepack(p) ==
    IF ~p.exists THEN Raise("FileNotFoundError") ELSE p.content

\* main up to index.add(emb): the articles are read, encoded and added
BuildIndex ==
    /\ bpc = "start"
    /\ LET rp == load_rulepack(rp_path)
           arts == IF Raised(rp) THEN <<>> ELSE Get(rp, "articles", <<>>)
       IN  IF Raised(rp) \/ Len(arts) = 0
           THEN /\ bpc' = "failed"
                /\ UNCHANGED build
           ELSE /\ build' = [arts |-> arts, index |-> Encode(Texts(arts))]
                /\ bpc' = "added"
    /\ UNCHANGED <<rp_path, mergeVars, serveVars, index_file, mapping_file, searcher, last, runs, segVars,
                 genVars, loopVars, frameVars>>

\* faiss.write_index(index, out_dir / "articles.index")
WriteIndex ==
    /\ bpc = "added"
    /\ index_file' = [exists |-> TRUE, vectors |-> build.index]
    /\ bpc' = "index_written"
    /\ UNCHANGED <<rp_path, mergeVars, serveVars, mapping_file, build, searcher, last, runs, segVars,
                 genVars, loopVars, frameVars>>

\* (out_dir / "mapping.json").write_text(json.dumps(arts, ...))
WriteMapping ==
    /\ bpc = "index_written"
    /\ mapping_file' = [exists |-> TRUE, articles |-> build.arts]
    /\ bpc' = "done"
    /\ UNCHANGED <<rp_path, mergeVars, serveVars, index_file, build, searcher, last, runs, segVars,
                 genVars, loopVars, frameVars>>

\* RegulatorSearcher.__init__: mapping.json is read first, then the index;
\* a missing file raises and no searcher comes to exist
NewSearcher ==
    /\ searcher = NoSearcher
    /\ IF mapping_file.exists /\ index_file.exists
       THEN /\ searcher' = [ready |-> TRUE,
                            mapping |-> JsonRoundTrip(mapping_file.articles),
                            index |-> index_file.vectors]
            /\ UNCHANGED last
       ELSE /\ last' = [called |-> FALSE,
                        error |-> IF mapping_file.exists THEN "RuntimeError"
                                  ELSE "FileNotFoundError"]
            /\ UNCHANGED searcher
    /\ UNCHANGED <<rp_path, mergeVars, serveVars, index_file, mapping_file, build, bpc, runs, segVars,
                 genVars, loopVars, frameVars>>

\* RegulatorSearcher.search(text, k)
Search ==
    /\ searcher.ready
    /\ \E text \in QueryTexts, k \in 1..MaxK :
       \E order \in ScoreOrders(searcher.index, Embed(text)) :
           last' = search(searcher, text, k, order)
    /\ UNCHANGED <<rp_path, mergeVars, serveVars, index_file, mapping_file, build, bpc, searcher, runs, segVars,
                 genVars, loopVars, frameVars>>

IndexNext == BuildIndex \/ WriteIndex \/ WriteMapping \/ NewSearcher \/ Search

SpecIndex == IndexInit /\ [][IndexNext]_vars

-----------------------------------------------------------------------------
(* Rebuilds of the index of one namespace while a serving process loads it *)

\* the article lists the rule-pack of the namespace goes through
RebuildLists ==
    {<<IdxShort>>, <<IdxNoTitle, IdxShort>>, <<IdxShort, IdxLong>>, <<IdxNoTitle>>}

RebuildInit ==
    /\ \E arts \in RebuildLists :
           rp_path = [exists |-> TRUE,
                      content |-> DictSet(TopRegistered, "articles", arts)]
    /\ rp_new = EmptyDict
    /\ rp_old = EmptyDict
    /\ rp_merged = EmptyDict
    /\ pc = "start"
    /\ IndexIdle
    /\ runs = NoRuns
    /\ doc = <<>>
    /\ segs = NotCalled
    /\ GenIdle /\ LoopIdle /\ FrameIdle

\* a merge run writes the rule-pack of the namespace (_dump_yaml) after the
\* index was built from the previous one
RulepackChanges ==
    /\ bpc = "done"
    /\ mapping_file.articles = rp_path.content["articles"]
    /\ \E arts \in RebuildLists \ {rp_path.content["articles"]} :
           rp_path' = _dump_yaml(rp_path, DictSet(rp_path.content, "articles", arts))
    /\ UNCHANGED <<mergeVars, indexVars, serveVars, runs, segVars,
                 genVars, loopVars, frameVars>>

\* python -m models.retriever.build_index --ns <ns> is started again
StartBuild ==
    /\ bpc \in {"done", "failed", "killed"}
    /\ bpc' = "start"
    /\ build' = NoBuild
    /\ UNCHANGED <<rp_path, mergeVars, serveVars, index_file, mapping_file, searcher, last, runs, segVars,
                 genVars, loopVars, frameVars>>

\* the build process is killed after index.add, before or after write_index
KillBuild ==
    /\ bpc \in {"added", "index_written"}
    /\ bpc' = "killed"
    /\ UNCHANGED <<rp_path, mergeVars, serveVars, index_file, mapping_file, build, searcher, last, runs, segVars,
                 genVars, loopVars, frameVars>>

\* RegulatorSearcher.__init__, line 18: self.mapping is read
LoadMapping ==
    /\ searcher = NoSearcher
    /\ IF mapping_file.exists
       THEN /\ searcher' = [ready |-> FALSE,
                            mapping |-> JsonRoundTrip(mapping_file.articles)]
            /\ UNCHANGED last
       ELSE /\ last' = [called |-> FALSE, error |-> "FileNotFoundError"]
            /\ UNCHANGED searcher
    /\ UNCHANGED <<rp_path, mergeVars, serveVars, index_file, mapping_file, build, bpc, runs, segVars,
                 genVars, loopVars, frameVars>>

\* RegulatorSearcher.__init__, lines 19-20: self.index is read
LoadIndex ==
    /\ ~searcher.ready
    /\ searcher # NoSearcher
    /\ IF index_file.exists
       THEN /\ searcher' = [ready |-> TRUE, mapping |-> searcher.mapping,
                            index |-> index_file.vectors]
            /\ UNCHANGED last
       ELSE /\ last' = [called |-> FALSE, error |-> "RuntimeError"]
            /\ searcher' = NoSearcher
    /\ UNCHANGED <<rp_path, mergeVars, serveVars, index_file, mapping_file, build, bpc, runs, segVars,
                 genVars, loopVars, frameVars>>

RebuildNext ==
    \/ BuildIndex \/ WriteIndex \/ WriteMapping
    \/ RulepackChanges \/ StartBuild \/ KillBuild
    \/ LoadMapping \/ LoadIndex \/ Search

SpecRebuild == RebuildInit /\ [][RebuildNext]_vars

-----------------------------------------------------------------------------
(* The serving process: InferencePipeline over the indices of several namespaces *)

Namespaces == {"a", "b", "c", "d"}

\* indices/<ns>/ as completed builds left it ("a", "b"), as no build ever ran
\* ("c"), and as a first build killed before mapping.json left it ("d")
Disk ==
    [ns \in Namespaces |->
        CASE ns = "a" -> [index |-> [exists |-> TRUE, vectors |-> Encode(Texts(<<IdxShort>>))],
                          mapping |-> [exists |-> TRUE, articles |-> <<IdxShort>>]]
          [] ns = "b" -> [index |-> [exists |-> TRUE,
                                     vectors |-> Encode(Texts(<<IdxNoTitle, IdxShort>>))],
                          mapping |-> [exists |-> TRUE, articles |-> <<IdxNoTitle, IdxShort>>]]
          [] ns = "c" -> [index |-> NoFile, mapping |-> NoFile]
          [] OTHER -> [index |-> [exists |-> TRUE, vectors |-> Encode(Texts(<<IdxShort>>))],
                       mapping |-> NoFile]]

\* a searcher that comes up on missing files with nothing loaded
EmptySearcher(ns, instance) ==
    [ns |-> ns,
     mapping |-> IF Disk[ns].mapping.exists THEN Disk[ns].mapping.articles ELSE <<>>,
     index |-> IF Disk[ns].index.exists THEN Disk[ns].index.vectors ELSE <<>>,
     model |-> instance]

\* RegulatorSearcher(ns): the object, whose model is a SentenceTransformer
\* loaded by this very call (instance), or the exception of __init__
RegulatorSearcher(ns, instance) ==
    IF ~Disk[ns].mapping.exists THEN Raise("FileNotFoundError")
    ELSE IF ~Disk[ns].index.exists THEN Raise("RuntimeError")
    ELSE [ns |-> ns,
          mapping |-> JsonRoundTrip(Disk[ns].mapping.articles),
          index |-> Disk[ns].index.vectors,
          model |-> instance]

\* set_regulator rewritten to swap the mapping of the live object in place
SwapMappingInPlace(p, h, ns) ==
    IF Disk[ns].mapping.exists
    THEN [pipeline |-> p,
          heap |-> [h EXCEPT ![p.searcher].mapping = Disk[ns].mapping.articles],
          error |-> ""]
    ELSE [pipeline |-> p, heap |-> h, error |-> "FileNotFoundError"]

\* InferencePipeline.set_regulator on the pipeline p and the objects h:
\* the pipeline and the objects afterwards, and the exception raised if any.
\* self.searcher.regulator_ns is read first; __init__ of RegulatorSearcher
\* sets ns, idx_dir, mapping, index and model, and no regulator_ns.
set_regulator(p, h, ns) ==
    LET cur == h[p.searcher]
        new == RegulatorSearcher(ns, Len(h) + 1)
    IN  IF ~Has(cur, "regulator_ns")
        THEN [pipeline |-> p, heap |-> h, error |-> "AttributeError"]
        ELSE IF cur["regulator_ns"] = ns
        THEN [pipeline |-> p, heap |-> h, error |-> ""]
        ELSE IF Raised(new)
        THEN [pipeline |-> p, heap |-> h, error |-> new.raise]
        ELSE [pipeline |-> [constructed |-> TRUE, searcher |-> Len(h) + 1],
              heap |-> Append(h, DictSet(new, "regulator_ns", ns)),
              error |-> ""]

ServeInit ==
    /\ rp_path = [exists |-> FALSE, content |-> EmptyDict]
    /\ rp_new = EmptyDict
    /\ rp_old = EmptyDict
    /\ rp_merged = EmptyDict
    /\ pc = "start"
    /\ IndexIdle
    /\ runs = NoRuns
    /\ doc = <<>>
    /\ segs = NotCalled
    /\ GenIdle /\ LoopIdle /\ FrameIdle

\* InferencePipeline.__init__(regulator_ns)
NewPipeline ==
    /\ ~pipeline.constructed
    /\ \E ns \in Namespaces :
         LET new == RegulatorSearcher(ns, Len(heap) + 1)
         IN  IF Raised(new)
             THEN /\ reply' = [op |-> "init", ns |-> ns, error |-> new.raise]
                  /\ UNCHANGED <<pipeline, heap>>
             ELSE /\ heap' = Append(heap, new)
                  /\ pipeline' = [constructed |-> TRUE, searcher |-> Len(heap) + 1]
                  /\ reply' = [op |-> "init", ns |-> ns, error |-> ""]
    /\ UNCHANGED <<rp_path, mergeVars, indexVars, flight, runs, segVars,
                 genVars, loopVars, frameVars>>

\* InferencePipeline.set_regulator(regulator_ns), called while a run may be
\* inside search (overlapped)
SetRegulator ==
    /\ pipeline.constructed
    /\ \E ns \in Namespaces :
         LET r == set_regulator(pipeline, heap, ns)
         IN  /\ pipeline' = r.pipeline
             /\ heap' = r.heap
             /\ reply' = [op |-> "set_regulator", ns |-> ns, error |-> r.error,
                          overlapped |-> flight.running]
    /\ UNCHANGED <<rp_path, mergeVars, indexVars, flight, runs, segVars,
                 genVars, loopVars, frameVars>>

\* InferencePipeline.run up to self.index.search(q, k) of search: the
\* searcher object is taken from the pipeline and its index is searched
RunSearchIndex ==
    /\ pipeline.constructed
    /\ ~flight.running
    /\ \E text \in QueryTexts, k \in 1..MaxK :
       \E order \in ScoreOrders(heap[pipeline.searcher].index, Embed(text)) :
         LET self == heap[pipeline.searcher]
             found == FaissSearch(self.index, Embed(text), k, order)
         IN  flight' = [running |-> TRUE, self |-> pipeline.searcher,
                        text |-> text, k |-> k, index |-> self.index,
                        labels |-> found.labels, scores |-> found.scores]
    /\ UNCHANGED <<rp_path, mergeVars, indexVars, pipeline, heap, reply, runs, segVars,
                 genVars, loopVars, frameVars>>

\* the loop of search over self.mapping, and the return of run
RunReadMapping ==
    /\ flight.running
    /\ LET self == heap[flight.self]
           out == [r \in 1..Len(flight.labels) |->
                      Hit(self.mapping, r, flight.labels[r], flight.scores[r])]
           bad == {r \in 1..Len(out) : Raised(out[r])}
       IN  reply' = [op |-> "run", ns |-> self.ns, index |-> flight.index,
                     mapping |-> self.mapping,
                     retrieved |-> IF bad = {} THEN out ELSE <<>>,
                     error |-> IF bad = {} THEN "" ELSE
                         out[CHOOSE r \in bad : \A r2 \in bad : r <= r2].raise]
    /\ flight' = NoFlight
    /\ UNCHANGED <<rp_path, mergeVars, indexVars, pipeline, heap, runs, segVars,
                 genVars, loopVars, frameVars>>

ServeNext == NewPipeline \/ SetRegulator \/ RunSearchIndex \/ RunReadMapping

SpecServe == ServeInit /\ [][ServeNext]_vars

-----------------------------------------------------------------------------
(* Two merge runs of step2b on the rule-pack of one namespace, side by side *)

Writers == {1, 2}

\* what the two runs generated from their documents
WriterIncoming ==
    {DictSet(NewGenerated, "articles", <<a>>) : a \in {ArtFull2a, ArtFull10, ArtPart02}}

WritersInit ==
    /\ \/ rp_path = [exists |-> FALSE, content |-> EmptyDict]
       \/ \E arts \in {<<>>, <<ArtFull2b>>, <<ArtFull10>>} :
              rp_path = [exists |-> TRUE,
                         content |-> DictSet(TopRegistered, "articles", arts)]
    /\ rp_new = EmptyDict
    /\ rp_old = EmptyDict
    /\ rp_merged = EmptyDict
    /\ pc = "start"
    /\ IndexIdle
    /\ doc = <<>>
    /\ segs = NotCalled
    /\ GenIdle /\ LoopIdle /\ FrameIdle
    /\ \E first \in WriterIncoming, second \in WriterIncoming :
           runs = [w \in Writers |->
                      [rp_new |-> IF w = 1 THEN first ELSE second,
                       rp_old |-> EmptyDict, rp_merged |-> EmptyDict, pc |-> "start"]]

\* rp_old = _load_yaml(rp_path) of run w
WriterLoad ==
    /\ \E w \in Writers :
           /\ runs[w].pc = "start"
           /\ runs' = [runs EXCEPT ![w].rp_old = _load_yaml(rp_path),
                                   ![w].pc = "loaded"]
    /\ UNCHANGED <<rp_path, mergeVars, indexVars, serveVars, segVars,
                 genVars, loopVars, frameVars>>

\* rp_merged = merge_rulepacks(rp_old, rp_new) of run w
WriterMerge ==
    /\ \E w \in Writers :
           /\ runs[w].pc = "loaded"
           /\ LET m == merge_rulepacks(runs[w].rp_old, runs[w].rp_new)
              IN  runs' = [runs EXCEPT ![w].rp_merged = m,
                                       ![w].pc = IF Raised(m) THEN "failed" ELSE "merged"]
    /\ UNCHANGED <<rp_path, mergeVars, indexVars, serveVars, segVars,
                 genVars, loopVars, frameVars>>

\* _dump_yaml(rp_path, rp_merged) of run w
WriterDump ==
    /\ \E w \in Writers :
           /\ runs[w].pc = "merged"
           /\ rp_path' = _dump_yaml(rp_path, runs[w].rp_merged)
           /\ runs' = [runs EXCEPT ![w].pc = "written"]
    /\ UNCHANGED <<mergeVars, indexVars, serveVars, segVars,
                 genVars, loopVars, frameVars>>

WritersNext == WriterLoad \/ WriterMerge \/ WriterDump

SpecWriters == WritersInit /\ [][WritersNext]_vars

-----------------------------------------------------------------------------
(* Text offsets and the heading patterns RE_ARTICLE and RE_SECTION.          *)
(* An offset p of a text counts from 0 as in Python: the character at offset *)
(* p is text[p + 1], and text[a:b] is SubSeq(text, a + 1, b).                *)

\* \s of re, and the characters str.strip() removes
IsSpace(c) == c \in {" ", "\n", "\t", "\r"}

IsDigit(c) == c \in Digits

\* the character at offset p, "" at the end of the text
At(text, p) == IF p >= 0 /\ p < Len(text) THEN text[p + 1] ELSE ""

\* the scan for the mark stops at offset q
Stops(text, q, mark) ==
    CASE mark = "nonspace" -> q = Len(text) \/ ~IsSpace(At(text, q))
      [] mark = "newline" -> q = Len(text) \/ At(text, q) = "\n"
      [] mark = "linestart" -> q <= Len(text) /\ (q = 0 \/ At(text, q - 1) = "\n")
      [] mark = "newlines" -> At(text, q) = "\n" /\ At(text, q + 1) = "\n"
      [] mark = "nonnewline" -> q = Len(text) \/ At(text, q) # "\n"

\* the first offset q >= p at which the scan stops, q = Len(text) + 1 when
\* it stops nowhere
FirstFrom(text, p, mark) ==
    CHOOSE q \in p..(Len(text) + 1) :
        /\ q = Len(text) + 1 \/ Stops(text, q, mark)
        /\ \A r \in p..(q - 1) : ~Stops(text, r, mark)

\* \s* from offset p on: the offset behind the run of whitespace
SkipSpace(text, p) ==
    FirstFrom(text, p, "nonspace")

\* $ behind offset t: the offset of the next "\n", or the end of the text
LineEnd(text, t) ==
    FirstFrom(text, t, "newline")

\* ^ with re.MULTILINE: the first offset q >= p at the start of a line
NextLineStart(text, p) ==
    FirstFrom(text, p, "linestart")

\* the literal word stands at offset p
StartsWith(text, p, word) ==
    /\ p + Len(word) <= Len(text)
    /\ \A i \in 1..Len(word) : text[p + i] = word[i]

\* s.strip()
Strip(s) ==
    LET head == SkipSpace(s, 0)
        tail == CHOOSE q \in 0..Len(s) :
                    /\ q = 0 \/ ~IsSpace(s[q])
                    /\ \A r \in (q + 1)..Len(s) : IsSpace(s[r])
    IN  IF head >= Len(s) THEN <<>> ELSE SubSeq(s, head + 1, tail)

\* text[a:b]
Cut(text, a, b) == SubSeq(text, a + 1, b)

\* \d+ from offset p on: the offset behind the digits
RECURSIVE DigitsEnd(_, _)
DigitsEnd(text, p) == IF IsDigit(At(text, p)) THEN DigitsEnd(text, p + 1) ELSE p

\* \d+(?:\.\d+)* from offset p on, where a digit stands at p
RECURSIVE NumEnd(_, _)
NumEnd(text, p) ==
    LET d == DigitsEnd(text, p)
    IN  IF At(text, d) = "." /\ IsDigit(At(text, d + 1)) THEN NumEnd(text, d + 1) ELSE d

\* (?P<title>[^\n]{1,120})$ can start at offset t
TitleLimit == 120

TitleAt(text, t) ==
    /\ t < Len(text)
    /\ At(text, t) # "\n"
    /\ LineEnd(text, t) - t <= TitleLimit

\* \s* (or \s+) in front of the title, from offset lo up to the end hi of the
\* whitespace: greedy, giving characters back to the title until it fits;
\* the offset the title starts at, or -1
TitleStart(text, lo, hi) ==
    IF lo > hi THEN -1
    ELSE IF TitleAt(text, hi) THEN hi
    ELSE LET fits == {t \in lo..(hi - 1) : TitleAt(text, t)}
         IN  IF fits = {} THEN -1 ELSE CHOOSE t \in fits : \A u \in fits : u <= t

\* the en dash U+2013 of the patterns, as one character
EnDash == "U+2013"

IsDash(c) == c \in {":", "-", EnDash}

NoMatch == [ok |-> FALSE]

\* the match object: m.start(), m.end(), m.group("num"), m.group("title")
Match(text, p, num0, num1, t) ==
    IF t < 0 THEN NoMatch
    ELSE [ok |-> TRUE, start |-> p, end |-> LineEnd(text, t),
          num |-> Cut(text, num0, num1), title |-> Cut(text, t, LineEnd(text, t))]

\* (?:(?:Article|ART\.?|ARTICLE)\s*)? at offset q: the offset the number
\* starts at, or -1 when no digit follows; NumberOnly is the pattern without
\* the optional word
NumberOnly(text, q) == IF IsDigit(At(text, q)) THEN q ELSE -1

ArticleWord(text, q) ==
    LET behind(len) == SkipSpace(text, q + len)
        digit(r) == IsDigit(At(text, r))
    IN  IF IsDigit(At(text, q)) THEN q
        ELSE IF StartsWith(text, q, <<"A", "r", "t", "i", "c", "l", "e">>) /\ digit(behind(7))
        THEN behind(7)
        ELSE IF StartsWith(text, q, <<"A", "R", "T", ".">>) /\ digit(behind(4)) THEN behind(4)
        ELSE IF StartsWith(text, q, <<"A", "R", "T">>) /\ digit(behind(3)) THEN behind(3)
        ELSE IF StartsWith(text, q, <<"A", "R", "T", "I", "C", "L", "E">>) /\ digit(behind(7))
        THEN behind(7)
        ELSE -1

\* RE_ARTICLE.match at the line start p
RE_ARTICLE(text, p) ==
    LET num0 == ArticleWord(text, SkipSpace(text, p))
        num1 == NumEnd(text, num0)
        mark == SkipSpace(text, num1)
        dashed == IF IsDash(At(text, mark))
                  THEN TitleStart(text, mark + 1, SkipSpace(text, mark + 1)) ELSE -1
        spaced == TitleStart(text, num1 + 1, mark)
    IN  IF num0 < 0 THEN NoMatch
        ELSE Match(text, p, num0, num1, IF dashed >= 0 THEN dashed ELSE spaced)

\* (?:Section|SECTION)\s+ at offset q: the offset the number starts at, or -1
SectionWord(text, q) ==
    LET r == SkipSpace(text, q + 7)
    IN  IF /\ \/ StartsWith(text, q, <<"S", "e", "c", "t", "i", "o", "n">>)
              \/ StartsWith(text, q, <<"S", "E", "C", "T", "I", "O", "N">>)
           /\ r > q + 7
           /\ IsDigit(At(text, r))
        THEN r ELSE -1

\* RE_SECTION.match at the line start p
RE_SECTION(text, p) ==
    LET num0 == SectionWord(text, SkipSpace(text, p))
        num1 == DigitsEnd(text, num0)
        mark == SkipSpace(text, num1)
    IN  IF num0 < 0 \/ ~IsDash(At(text, mark)) THEN NoMatch
        ELSE Match(text, p, num0, num1,
                   TitleStart(text, mark + 1, SkipSpace(text, mark + 1)))

\* pattern.match(text, p) of the compiled pattern of that name
MatchAt(pattern, text, p) ==
    IF pattern = "RE_ARTICLE" THEN RE_ARTICLE(text, p) ELSE RE_SECTION(text, p)

\* list(pattern.finditer(text)): the matches from left to right, each search
\* going on at the end of the match before
RECURSIVE FindIter(_, _, _, _)
FindIter(pattern, text, pos, acc) ==
    LET p == NextLineStart(text, pos)
        m == MatchAt(pattern, text, p)
    IN  IF p > Len(text) THEN acc
        ELSE IF m.ok THEN FindIter(pattern, text, m.end, Append(acc, m))
        ELSE FindIter(pattern, text, p + 1, acc)

-----------------------------------------------------------------------------
(* RulepackGenerator.segment and _fixed_windows *)

Segment(article_id, title, text, start, end) ==
    [article_id |-> article_id, title |-> title, text |-> text,
     start |-> start, end |-> end]

\* str(n) of an int n >= 0
RECURSIVE Str(_)
Str(n) ==
    LET digit == CHOOSE c \in Digits : Ord(c) - 48 = n % 10
    IN  IF n < 10 THEN <<digit>> ELSE Str(n \div 10) \o <<digit>>

\* if body: a match is kept when its stripped body is not empty;
\* BodyAlways keeps every match
BodyAlways(body) == TRUE

BodyKept(body) == body # <<>>

\* the segments of the matches of RE_ARTICLE from the i-th on: one for each
\* match whose body, up to the next match or the end of the text, is not blank
RECURSIVE ArticleSegments(_, _, _)
ArticleSegments(text, matches, i) ==
    IF i > Len(matches) THEN <<>>
    ELSE LET m == matches[i]
             start == m.end
             end == IF i + 1 <= Len(matches) THEN matches[i + 1].start ELSE Len(text)
             body == Strip(Cut(text, start, end))
             rest == ArticleSegments(text, matches, i + 1)
         IN  IF BodyKept(body)
             THEN <<Segment(Strip(m.num), Strip(m.title), body, start, end)>> \o rest
             ELSE rest

\* re.split(r"\n{2,}", body): the pieces between the runs of two or more "\n"
RECURSIVE SplitParagraphs(_)
SplitParagraphs(body) ==
    LET cut == FirstFrom(body, 0, "newlines")
        next == FirstFrom(body, cut, "nonnewline")
    IN  IF cut > Len(body) THEN <<body>>
        ELSE <<Cut(body, 0, cut)>> \o SplitParagraphs(Cut(body, next, Len(body)))

\* paras = [p.strip() for p in re.split(...) if p.strip()];
\* OneParagraph takes the body as one paragraph
OneParagraph(body) == IF Strip(body) = <<>> THEN <<>> ELSE <<Strip(body)>>

Paragraphs(body) ==
    LET pieces == SplitParagraphs(body)
        kept == SelectSeq(pieces, LAMBDA p : Strip(p) # <<>>)
    IN  [j \in 1..Len(kept) |-> Strip(kept[j])]

\* the segments of the matches of RE_SECTION from the i-th on: one for each
\* paragraph of each section body, all with the offsets of the section body
RECURSIVE SectionSegments(_, _, _)
SectionSegments(text, secm, i) ==
    IF i > Len(secm) THEN <<>>
    ELSE LET m == secm[i]
             sec_id == Strip(m.num)
             sec_title == Strip(m.title)
             start == m.end
             end == IF i + 1 <= Len(secm) THEN secm[i + 1].start ELSE Len(text)
             paras == Paragraphs(Strip(Cut(text, start, end)))
         IN  [j \in 1..Len(paras) |->
                 Segment(sec_id \o <<".">> \o Str(j),
                         IF j = 1 THEN sec_title
                         ELSE sec_title \o <<" ", "(", "p", "a", "r", "t", " ">> \o Str(j) \o <<")">>,
                         paras[j], start, end)]
             \o SectionSegments(text, secm, i + 1)

\* the while loop of _fixed_windows from window start s and counter k on
\* s = max(0, e - overlap); NextStartNoOverlap starts the next window
\* where the previous one ends
NextStartNoOverlap(e, overlap) == e

NextStart(e, overlap) == IF e - overlap > 0 THEN e - overlap ELSE 0

\* the windows [s, e) of the loop of _fixed_windows from the start s on,
\* whether their text is kept or not
RECURSIVE WindowSpans(_, _, _, _)
WindowSpans(n, win_chars, overlap, s) ==
    LET e == Min(n, s + win_chars)
    IN  IF ~(s < n) THEN <<>>
        ELSE IF e >= n THEN <<[start |-> s, end |-> e]>>
        ELSE <<[start |-> s, end |-> e]>>
             \o WindowSpans(n, win_chars, overlap, NextStart(e, overlap))

RECURSIVE WindowLoop(_, _, _, _, _)
WindowLoop(text, win_chars, overlap, s, k) ==
    LET n == Len(text)
        e == Min(n, s + win_chars)
        chunk == Strip(Cut(text, s, e))
        seg == IF chunk # <<>>
               THEN <<Segment(<<"F">> \o Str(k),
                              <<"F", "r", "a", "g", "m", "e", "n", "t", " ">> \o Str(k),
                              chunk, s, e)>>
               ELSE <<>>
        k2 == IF chunk # <<>> THEN k + 1 ELSE k
        s2 == NextStart(e, overlap)
    IN  IF ~(s < n) THEN <<>>
        ELSE IF e >= n THEN seg
        ELSE seg \o WindowLoop(text, win_chars, overlap, s2, k2)

\* the window at the start of the text alone, without the loop
FirstWindowOnly(text, win_chars, overlap) ==
    LET e == Min(Len(text), win_chars)
        chunk == Strip(Cut(text, 0, e))
    IN  IF chunk # <<>>
        THEN <<Segment(<<"F", "1">>,
                       <<"F", "r", "a", "g", "m", "e", "n", "t", " ", "1">>,
                       chunk, 0, e)>>
        ELSE <<>>

_fixed_windows(text, win_chars, overlap) == WindowLoop(text, win_chars, overlap, 0, 1)

WinChars == 2000
Overlap == 200

\* if segs: return segs, after the headings and after the sections;
\* FallThrough goes on to the next strategy with the segments kept
FallThrough(found) == FALSE

ArticlesReturn(found) == found # <<>>

SectionsReturn(found) == found # <<>>

\* not text or not text.strip()
Blank(text) == text = <<>> \/ Strip(text) = <<>>

\* RulepackGenerator.segment
segment(text) ==
    LET matches == FindIter("RE_ARTICLE", text, 0, <<>>)
        segs1 == ArticleSegments(text, matches, 1)
        secm == FindIter("RE_SECTION", text, 0, <<>>)
        segs2 == segs1 \o SectionSegments(text, secm, 1)
    IN  IF Blank(text) THEN <<>>
        ELSE IF ArticlesReturn(segs1) THEN segs1
        ELSE IF SectionsReturn(segs2) THEN segs2
        ELSE _fixed_windows(text, WinChars, Overlap)

-----------------------------------------------------------------------------
(* Calls of segment on documents put together from lines and fillers *)

\* n times the character c
Repeat(c, n) == [i \in 1..n |-> c]

PieceArticle ==
    <<"A", "r", "t", "i", "c", "l", "e", " ", "1", ":", " ", "A", "\n">>

PieceNumbered ==
    <<"2", " ", "B", "\n">>

PieceSection ==
    <<"S", "e", "c", "t", "i", "o", "n", " ", "3", ":", " ", "S", "\n">>

PieceBody ==
    <<"b", "\n">>

PieceParagraphs ==
    <<"p", "\n", "\n", "q", "\n">>

PieceBlank ==
    <<"\n">>

\* a line too long for a title, longer than the window overlap
PiecePreamble == Repeat("y", Overlap + 1) \o <<"\n">>

\* fillers close to one window and of two windows
PieceLetters == Repeat("x", WinChars - 100)

PieceSpaces == Repeat(" ", 2 * WinChars)

\* the lines of documents with and without headings
Pieces ==
    {PieceArticle, PieceNumbered, PieceSection, PieceBody, PieceParagraphs,
     PieceBlank, PiecePreamble}

\* the parts of documents of several windows
Fillers == {PieceLetters, PieceSpaces, PieceBody}

ExampleText ==
    <<"A", "r", "t", "i", "c", "l", "e", " ", "1", ":", " ", "L", "i", "c",
      "e", "n", "s", "i", "n", "g", "\n", "E", "n", "t", "i", "t", "i", "e",
      "s", " ", "m", "u", "s", "t", " ", "o", "b", "t", "a", "i", "n", " ",
      "a", " ", "l", "i", "c", "e", "n", "s", "e", ".", ".", ".", "\n", "\n",
      "A", "r", "t", "i", "c", "l", "e", " ", "2", ":", " ", "C", "a", "p",
      "i", "t", "a", "l", "\n", "M", "i", "n", "i", "m", "u", "m", " ", "p",
      "a", "i", "d", "-", "u", "p", " ", "c", "a", "p", "i", "t", "a", "l",
      " ", "o", "f", " ", "Q", "A", "R", " ", "5", "0", "0", ",", "0", "0",
      "0", ".", ".", ".">>

\* documents of headings "Article <id>: <title>", each with a body
Headed(id, title, body) == [id |-> id, title |-> title, body |-> body]

HeadLicensing ==
    Headed(<<"1">>, <<"L", "i", "c", "e", "n", "s", "i", "n", "g">>,
           <<"E", "n", "t", "i", "t", "i", "e", "s", " ", "m", "u", "s", "t", " ", "o", "b", "t", "a", "i", "n", " ", "a", " ", "l", "i", "c", "e", "n", "s", "e", ".", ".", ".", "\n">>)

HeadCapital ==
    Headed(<<"2">>, <<"C", "a", "p", "i", "t", "a", "l">>,
           <<"M", "i", "n", "i", "m", "u", "m", " ", "p", "a", "i", "d", "-", "u", "p", " ", "c", "a", "p", "i", "t", "a", "l", " ", "o", "f", " ", "Q", "A", "R", " ", "5", "0", "0", ",", "0", "0", "0", ".", ".", ".">>)

\* a dotted id, a title of two words, a body of two paragraphs
HeadDotted == Headed(<<"1", ".", "2">>, <<"A", " ", "c">>, <<"p", "\n", "\n", "q">>)

\* the longest title the pattern takes, a body with whitespace around it
HeadLong == Headed(<<"1", "0">>, Repeat("x", TitleLimit), <<"\n", " ", "b", " ", "\n">>)

Heads == {HeadLicensing, HeadCapital, HeadDotted, HeadLong}

HeadingLine(h) ==
    <<"A", "r", "t", "i", "c", "l", "e", " ">> \o h.id \o <<":", " ">> \o h.title

\* the document of the headings hs: heading and body lines, one after the other
RECURSIVE Render(_)
Render(hs) ==
    IF hs = <<>> THEN <<>>
    ELSE HeadingLine(hs[1]) \o <<"\n">> \o hs[1].body
         \o (IF Len(hs) > 1 THEN <<"\n">> \o Render(Tail(hs)) ELSE <<>>)

\* documents of headings "Section N: Title", each with its paragraphs
Sectioned(num, title, paras) == [num |-> num, title |-> title, paras |-> paras]

\* two paragraphs; one paragraph of two lines under a title of two words;
\* three paragraphs
SecTwoParas == Sectioned(<<"3">>, <<"S">>, <<<<"p">>, <<"q">>>>)
SecTwoLines == Sectioned(<<"1", "2">>, <<"T", " ", "t">>, <<<<"p", "\n", "r">>>>)
SecThreeParas == Sectioned(<<"4">>, <<"U">>, <<<<"a">>, <<"b", " ", "c">>, <<"d">>>>)

Sections == {SecTwoParas, SecTwoLines, SecThreeParas}

SectionLine(sec) ==
    <<"S", "e", "c", "t", "i", "o", "n", " ">> \o sec.num \o <<":", " ">> \o sec.title

\* the paragraphs from the k-th on, a blank line between two of them
RECURSIVE JoinParas(_, _)
JoinParas(paras, k) ==
    IF k > Len(paras) THEN <<>>
    ELSE paras[k] \o (IF k < Len(paras) THEN <<"\n", "\n">> \o JoinParas(paras, k + 1)
                      ELSE <<>>)

\* the document of the sections ss
RECURSIVE RenderSections(_)
RenderSections(ss) ==
    IF ss = <<>> THEN <<>>
    ELSE SectionLine(ss[1]) \o <<"\n">> \o JoinParas(ss[1].paras, 1)
         \o (IF Len(ss) > 1 THEN <<"\n">> \o RenderSections(Tail(ss)) ELSE <<>>)

MaxPieces == 3
MaxFillers == 3
MaxHeadings == 2
MaxSections == 2

SectionLists == UNION {[1..n -> Sections] : n \in 1..MaxSections}

HeadingLists == UNION {[1..n -> Heads] : n \in 1..MaxHeadings}

RECURSIVE Concat(_)
Concat(parts) == IF parts = <<>> THEN <<>> ELSE Head(parts) \o Concat(Tail(parts))

DocTexts ==
    {ExampleText}
    \cup UNION {{Concat(parts) : parts \in [1..n -> Pieces]} : n \in 0..MaxPieces}
    \cup UNION {{Concat(parts) : parts \in [1..n -> Fillers]} : n \in 1..MaxFillers}
    \cup {Render(hs) : hs \in HeadingLists}
    \cup {RenderSections(ss) : ss \in SectionLists}

SegmentInit ==
    /\ rp_path = [exists |-> FALSE, content |-> EmptyDict]
    /\ rp_new = EmptyDict
    /\ rp_old = EmptyDict
    /\ rp_merged = EmptyDict
    /\ pc = "start"
    /\ IndexIdle
    /\ runs = NoRuns
    /\ doc \in DocTexts
    /\ segs = NotCalled
    /\ GenIdle /\ LoopIdle /\ FrameIdle

\* segs = gen.segment(doc)
CallSegment ==
    /\ segs = NotCalled
    /\ segs' = [called |-> TRUE, out |-> segment(doc)]
    /\ UNCHANGED <<rp_path, mergeVars, indexVars, serveVars, runs, doc,
                 genVars, loopVars, frameVars>>

SegmentNext == CallSegment

SpecSegment == SegmentInit /\ [][SegmentNext]_vars

-----------------------------------------------------------------------------
(* RulepackGenerator.classify_domain and build_rulepack.                     *)
(* A similarity is an integer count of ten-thousandths, a confidence (as in  *)
(* the articles of the merge run) an integer count of thousandths. Rows of   *)
(* the label matrix count from 1 here and from 0 in Python.                  *)

\* DOMAIN_LABELS: the domain ids in insertion order, each with five phrasings
DomainIds ==
    <<<<"a", "m", "l", "_", "k", "y", "c">>,
      <<"d", "a", "t", "a", "_", "r", "e", "s", "i", "d", "e", "n", "c", "y">>,
      <<"g", "o", "v", "e", "r", "n", "a", "n", "c", "e">>,
      <<"l", "i", "c", "e", "n", "s", "i", "n", "g", "_", "c", "a", "p", "i", "t", "a", "l">>>>

LabelsPerDomain == 5

\* the rows of self._label_texts and of self._label_emb
LabelRows == 1..(Len(DomainIds) * LabelsPerDomain)

\* self._label_texts[j][0]
LabelDomain(j) == DomainIds[((j - 1) \div LabelsPerDomain) + 1]

\* a row of sims: lo everywhere but x at row a and y at row b
Peaks(lo, a, x, b, y) ==
    [r \in LabelRows |-> IF r = a THEN x ELSE IF r = b THEN y ELSE lo]

\* the rows of np.matmul(seg_emb, self._label_emb.T) a segment may get:
\* the maximum twice, in two domains; just below the threshold; at the
\* threshold, twice in one domain; all similarities negative; the rounding
\* of float32 above 1; a similarity half way between two thousandths
SimRows ==
    <<Peaks(1000, 5, 4000, 6, 4000),
      Peaks(0 - 200, 20, 3499, 1, 0),
      Peaks(0, 11, 3500, 12, 3500),
      Peaks(0 - 3000, 7, 0 - 500, 8, 0 - 500),
      Peaks(2000, 16, 10001, 3, 9999),
      Peaks(0, 1, 4375, 20, 4375)>>

\* the embedding models: each one maps a text to its row of sims
Models == 0..(Len(SimRows) - 1)

\* sims[i] for the text t under the model m: a function of the text alone
LabelSims(m, t) == SimRows[((Len(t) + m) % Len(SimRows)) + 1]

\* v or ""
OrEmpty(v) == IF Falsy(v) THEN <<>> ELSE v

\* t = (s.title or "").strip() + "\n\n" + (s.text or "").strip()
ClassText(s) == Strip(OrEmpty(s.title)) \o <<"\n", "\n">> \o Strip(OrEmpty(s.text))

\* keep: the segments s with t.strip(); KeepAll keeps every segment
KeepAll(segments) == segments

Kept(segments) == SelectSeq(segments, LAMBDA s : Strip(ClassText(s)) # <<>>)

\* int(np.argmax(row)): the first row index of the maximum;
\* ArgMaxLast is the last one
ArgMaxLast(row) ==
    CHOOSE j \in DOMAIN row :
        /\ \A k \in DOMAIN row : row[k] <= row[j]
        /\ \A k \in DOMAIN row : k > j => row[k] < row[j]

ArgMax(row) ==
    CHOOSE j \in DOMAIN row :
        /\ \A k \in DOMAIN row : row[k] <= row[j]
        /\ \A k \in DOMAIN row : k < j => row[k] < row[j]

\* score >= 0.35
Threshold == 3500

\* (s, assigned, score) for the kept segment s and its row of sims
LabeledSegment(s, row) ==
    LET j == ArgMax(row)
        dom == LabelDomain(j)
        score == row[j]
    IN  [seg |-> s, assigned |-> IF score >= Threshold THEN dom ELSE None, score |-> score]

\* RulepackGenerator.classify_domain under the embedding model m
classify_domain(segments, m) ==
    LET keep == Kept(segments)
    IN  IF segments = <<>> THEN <<>>
        ELSE IF keep = <<>> THEN <<>>
        ELSE [i \in 1..Len(keep) |-> LabeledSegment(keep[i], LabelSims(m, ClassText(keep[i])))]

\* round(score, 3): to the nearest thousandth, a tie to the even one
Round3(score) ==
    LET q == score \div 10
        r == score % 10
    IN  IF r < 5 THEN q
        ELSE IF r > 5 THEN q + 1
        ELSE IF q % 2 = 0 THEN q ELSE q + 1

\* w.capitalize()
Capitalize(w) == IF w = <<>> THEN <<>> ELSE <<UpperChar(w[1])>> \o Tail(w)

\* " ".join(w.capitalize() for w in k.split("_")): the words of k from offset p on
RECURSIVE CapitalizedWords(_, _)
CapitalizedWords(k, p) ==
    LET stop == CHOOSE q \in p..Len(k) :
                    /\ q = Len(k) \/ k[q + 1] = "_"
                    /\ \A r \in p..(q - 1) : k[r + 1] # "_"
        word == Capitalize(Cut(k, p, stop))
    IN  IF stop = Len(k) THEN word ELSE word \o <<" ">> \o CapitalizedWords(k, stop + 1)

\* the value of "domains" in the rule-pack
DomainCatalog ==
    [d \in 1..Len(DomainIds) |->
        [id |-> DomainIds[d], name |-> CapitalizedWords(DomainIds[d], 0)]]

\* segs.extend(self.segment(t)) for t in doc_texts
RECURSIVE SegmentAll(_)
SegmentAll(docs) ==
    IF docs = <<>> THEN <<>>
    ELSE segment(Head(docs)) \o SegmentAll(Tail(docs))

\* the dict build_rulepack appends for (seg, dom, score)
ArticleOf(l) ==
    [article_id |-> l.seg.article_id, title |-> l.seg.title, text |-> l.seg.text,
     domain |-> l.assigned, confidence |-> Round3(l.score)]

\* the rule-pack build_rulepack composes from what classify_domain returned
Rulepack(ns, jurisdiction, name, lab) ==
    [id |-> ns, jurisdiction |-> jurisdiction, name |-> name,
     domains |-> DomainCatalog,
     articles |-> [i \in 1..Len(lab) |-> ArticleOf(lab[i])]]

\* RulepackGenerator.build_rulepack under the embedding model m
build_rulepack(ns, jurisdiction, name, docs, m) ==
    Rulepack(ns, jurisdiction, name, classify_domain(SegmentAll(docs), m))

-----------------------------------------------------------------------------
(* Calls of classify_domain on lists of segments, and calls of build_rulepack *)
(* on lists of documents                                                      *)

\* segments with a title and a text, with an empty title, with nothing but
\* whitespace, without a title, with a title alone, with neither
SegTitled == Segment(<<"1">>, <<"A">>, <<"b">>, 0, 1)
SegUntitled == Segment(<<"2">>, <<>>, <<"q", " ", "q">>, 0, 3)
SegBlank == Segment(<<"3">>, <<" ">>, <<"\n">>, 0, 1)
SegNoTitle == Segment(<<"4">>, None, <<"c", "c", "c", "c">>, 0, 4)
SegTitleOnly == Segment(<<"5">>, <<"T", "i", "t", "l", "e">>, <<>>, 0, 0)
SegNone == Segment(<<"6">>, None, None, 0, 0)

ClassSegs == {SegTitled, SegUntitled, SegBlank, SegNoTitle, SegTitleOnly, SegNone}

MaxSegs == 2

ClassLists == UNION {[1..n -> ClassSegs] : n \in 0..MaxSegs}

\* classify_domain is about to be called on cin
ClassifyInit ==
    /\ rp_path = [exists |-> FALSE, content |-> EmptyDict]
    /\ rp_new = EmptyDict
    /\ rp_old = EmptyDict
    /\ rp_merged = EmptyDict
    /\ pc = "start"
    /\ IndexIdle
    /\ runs = NoRuns
    /\ doc = <<>>
    /\ segs = NotCalled
    /\ st_model \in Models
    /\ doc_texts = <<>>
    /\ cin \in ClassLists
    /\ labeled = NotCalled
    /\ built = NotCalled
    /\ gpc = "segmented"
    /\ LoopIdle /\ FrameIdle

\* labeled = self.classify_domain(segs)
ClassifyDomain ==
    /\ gpc = "segmented"
    /\ labeled' = [called |-> TRUE, out |-> classify_domain(cin, st_model)]
    /\ gpc' = "labeled"
    /\ UNCHANGED <<rp_path, mergeVars, indexVars, serveVars, runs, segVars,
                   st_model, doc_texts, cin, built, loopVars, frameVars>>

ClassifyNext == ClassifyDomain

SpecClassify == ClassifyInit /\ [][ClassifyNext]_vars

\* the arguments ns, jurisdiction and name of build_rulepack in step2b main
BuildNs == <<"r">>
BuildJurisdiction == <<>>
BuildName == Upper(BuildNs)

\* a number alone on its line: the whitespace behind it runs over the line
\* end, so the pattern takes the next line as the title
PieceNumberAlone == <<"1", " ", " ", "\n">>

\* documents: the two-article example; a section of two paragraphs; a blank
\* one; one without a heading; a heading without a body before a heading
\* with one; a heading whose title is the last line, so that no body is left
BuildDocs ==
    {ExampleText,
     PieceSection \o PieceParagraphs,
     PieceBlank,
     PieceBody \o PieceParagraphs,
     PieceArticle \o PieceBlank \o PieceNumbered \o PieceBody,
     PieceNumberAlone \o PieceBody}

MaxDocs == 2

BuildDocLists == UNION {[1..n -> BuildDocs] : n \in 0..MaxDocs}

\* build_rulepack is about to be called on doc_texts
BuildInit ==
    /\ rp_path = [exists |-> FALSE, content |-> EmptyDict]
    /\ rp_new = EmptyDict
    /\ rp_old = EmptyDict
    /\ rp_merged = EmptyDict
    /\ pc = "start"
    /\ IndexIdle
    /\ runs = NoRuns
    /\ doc = <<>>
    /\ segs = NotCalled
    /\ st_model \in Models
    /\ doc_texts \in BuildDocLists
    /\ cin = <<>>
    /\ labeled = NotCalled
    /\ built = NotCalled
    /\ gpc = "start"
    /\ LoopIdle /\ FrameIdle

\* for t in doc_texts: segs.extend(self.segment(t))
BuildSegment ==
    /\ gpc = "start"
    /\ cin' = SegmentAll(doc_texts)
    /\ gpc' = "segmented"
    /\ UNCHANGED <<rp_path, mergeVars, indexVars, serveVars, runs, segVars,
                   st_model, doc_texts, labeled, built, loopVars, frameVars>>

\* the articles and the rule-pack, returned
BuildAssemble ==
    /\ gpc = "labeled"
    /\ built' = [called |-> TRUE,
                 out |-> Rulepack(BuildNs, BuildJurisdiction, BuildName, labeled.out)]
    /\ gpc' = "done"
    /\ UNCHANGED <<rp_path, mergeVars, indexVars, serveVars, runs, segVars,
                   st_model, doc_texts, cin, labeled, loopVars, frameVars>>

BuildNext == BuildSegment \/ ClassifyDomain \/ BuildAssemble

SpecBuild == BuildInit /\ [][BuildNext]_vars

-----------------------------------------------------------------------------
(* The loops of _fixed_windows and split_into_chunks, one step an iteration. *)
(* The loops read the length of the text alone, so a text is its length.     *)

TargetChars == 4000
OverlapChars == 600

MaxWin == 3
MaxLen == 6

\* window sizes and overlaps: those of the two callers, and small ones with
\* an overlap from 0 up to one less than the window
WindowSizes(fn) ==
    (IF fn = "_fixed_windows"
     THEN {[win |-> WinChars, overlap |-> Overlap]}
     ELSE {[win |-> TargetChars, overlap |-> OverlapChars]})
    \cup UNION {{[win |-> w, overlap |-> o] : o \in 0..(w - 1)} : w \in 1..MaxWin}

\* text lengths around one window, around two windows, and of several
TextLengths(win, overlap) ==
    IF win <= MaxWin THEN 1..MaxLen
    ELSE {1, win - 1, win, win + 1, 2 * win - overlap, 2 * win - overlap + 1, 4 * win}

\* the call of fn with the sizes z on a text of n characters
LoopCall(fn, z, n) ==
    [running |-> TRUE, fn |-> fn, win |-> z.win, overlap |-> z.overlap, n |-> n,
     start |-> 0, end |-> 0, entered |-> FALSE, at |-> "call"]

LoopsInit ==
    /\ rp_path = [exists |-> FALSE, content |-> EmptyDict]
    /\ rp_new = EmptyDict
    /\ rp_old = EmptyDict
    /\ rp_merged = EmptyDict
    /\ pc = "start"
    /\ IndexIdle
    /\ runs = NoRuns
    /\ doc = <<>>
    /\ segs = NotCalled
    /\ GenIdle /\ FrameIdle
    \* segment calls _fixed_windows on a text that is not blank;
    \* split_into_chunks is called on any text, the empty one included
    /\ \E fn \in {"_fixed_windows", "split_into_chunks"} :
          \E z \in WindowSizes(fn) :
             \E n \in TextLengths(z.win, z.overlap) \cup
                       (IF fn = "split_into_chunks" THEN {0} ELSE {}) :
                loop = LoopCall(fn, z, n)

\* _fixed_windows: n = len(text); s = 0; k = 1
FixedWindowsEnter ==
    /\ loop.running /\ loop.fn = "_fixed_windows" /\ loop.at = "call"
    /\ loop' = [loop EXCEPT !.start = 0, !.at = "while"]
    /\ UNCHANGED <<rp_path, mergeVars, indexVars, serveVars, runs, segVars,
                   genVars, frameVars>>

\* one pass of while s < n: e = min(n, s + win_chars); ...; if e >= n: break;
\* s = max(0, e - overlap)
FixedWindowsStep ==
    /\ loop.running /\ loop.fn = "_fixed_windows" /\ loop.at = "while"
    /\ LET e == Min(loop.n, loop.start + loop.win)
       IN  loop' = IF ~(loop.start < loop.n) THEN [loop EXCEPT !.at = "return"]
                   ELSE IF e >= loop.n
                        THEN [loop EXCEPT !.end = e, !.entered = TRUE, !.at = "return"]
                   ELSE [loop EXCEPT !.end = e, !.entered = TRUE,
                                     !.start = NextStart(e, loop.overlap)]
    /\ UNCHANGED <<rp_path, mergeVars, indexVars, serveVars, runs, segVars,
                   genVars, frameVars>>

\* split_into_chunks: n = len(text); if n == 0: return []; start = 0
ChunksEnter ==
    /\ loop.running /\ loop.fn = "split_into_chunks" /\ loop.at = "call"
    /\ loop' = IF loop.n = 0 THEN [loop EXCEPT !.at = "return"]
               ELSE [loop EXCEPT !.start = 0, !.at = "while"]
    /\ UNCHANGED <<rp_path, mergeVars, indexVars, serveVars, runs, segVars,
                   genVars, frameVars>>

\* start = max(0, end - overlap_chars); ChunkRestart goes back to the start
\* of the text
ChunkRestart(end, overlap_chars) == 0

ChunkStart(end, overlap_chars) ==
    IF end - overlap_chars > 0 THEN end - overlap_chars ELSE 0

\* one pass of while start < n: end = min(n, start + target_chars); ...;
\* if end == n: break; start = max(0, end - overlap_chars)
ChunksStep ==
    /\ loop.running /\ loop.fn = "split_into_chunks" /\ loop.at = "while"
    /\ LET end == Min(loop.n, loop.start + loop.win)
       IN  loop' = IF ~(loop.start < loop.n) THEN [loop EXCEPT !.at = "return"]
                   ELSE IF end = loop.n
                        THEN [loop EXCEPT !.end = end, !.entered = TRUE, !.at = "return"]
                   ELSE [loop EXCEPT !.end = end, !.entered = TRUE,
                                     !.start = ChunkStart(end, loop.overlap)]
    /\ UNCHANGED <<rp_path, mergeVars, indexVars, serveVars, runs, segVars,
                   genVars, frameVars>>

LoopsNext == FixedWindowsEnter \/ FixedWindowsStep \/ ChunksEnter \/ ChunksStep

SpecLoops == LoopsInit /\ [][LoopsNext]_vars

\* a call that can take a step takes it: the interpreter runs the loop on
FairLoops == SpecLoops /\ WF_vars(LoopsNext)

-----------------------------------------------------------------------------
(* merge_rulepacks on objects. objs is the memory of the call: the object at *)
(* address a is objs[a], a dict or a list; a rule-pack dict holds under      *)
(* "articles" a reference to a list object, and that list holds references   *)
(* to the article dicts. The other values (strings, None, numbers, the       *)
(* domains) are never changed in place by the code and are held as values.   *)

Ref(a) == [ref |-> a]

\* the article dicts arts as objects behind the objects of h, one after another
RECURSIVE StoreArticles(_, _)
StoreArticles(h, arts) ==
    IF arts = <<>> THEN [heap |-> h, refs |-> <<>>]
    ELSE LET prev == StoreArticles(h, SubSeq(arts, 1, Len(arts) - 1))
         IN  [heap |-> Append(prev.heap, arts[Len(arts)]),
              refs |-> Append(prev.refs, Ref(Len(prev.heap) + 1))]

\* the rule-pack top as objects behind the objects of h: its article dicts,
\* its list of articles, the rule-pack dict itself last
Store(h, top) ==
    IF Has(top, "articles")
    THEN LET arts == StoreArticles(h, top["articles"])
             h2 == Append(arts.heap, arts.refs)
         IN  [heap |-> Append(h2, DictSet(top, "articles", Ref(Len(h2)))),
              at |-> Len(h2) + 1]
    ELSE [heap |-> Append(h, top), at |-> Len(h) + 1]

\* the rule-pack at address a as a value: the references followed
Value(h, a) ==
    IF Has(h[a], "articles")
    THEN LET refs == h[h[a]["articles"].ref]
         IN  DictSet(h[a], "articles", [i \in 1..Len(refs) |-> h[refs[i].ref]])
    ELSE h[a]

\* out = dict(existing) if existing else {}: a new dict object with the keys
\* and values (references included) of existing; AliasOut is out = existing
AliasOut(h, existing) == [heap |-> h, at |-> existing]

CopyOut(h, existing) ==
    [heap |-> Append(h, IF h[existing] # EmptyDict THEN h[existing] ELSE EmptyDict),
     at |-> Len(h) + 1]

\* h with the object at address a replaced by obj
Put(h, a, obj) == [h EXCEPT ![a] = obj]

\* the article dicts a list refers to, for out.get("articles", []) and
\* new.get("articles", [])
ArticleRefs(h, d) == IF Has(d, "articles") THEN h[d["articles"].ref] ELSE <<>>

\* ex_index[key] = the dict at address a, on an insertion-ordered dict of
\* references whose dicts carry their key in article_id
RefPut(h, idx, key, a) ==
    IF \E i \in 1..Len(idx) : h[idx[i].ref]["article_id"] = key
    THEN [i \in 1..Len(idx) |-> IF h[idx[i].ref]["article_id"] = key THEN Ref(a) ELSE idx[i]]
    ELSE Append(idx, Ref(a))

\* ex_index.get(key, {}) as a value
RefGet(h, idx, key) ==
    IF \E i \in 1..Len(idx) : h[idx[i].ref]["article_id"] = key
    THEN h[idx[CHOOSE i \in 1..Len(idx) : h[idx[i].ref]["article_id"] = key].ref]
    ELSE EmptyDict

\* {a["article_id"]: a for a in out.get("articles", []) if "article_id" in a}:
\* the values are the article dicts of the list themselves
RECURSIVE RefExIndex(_, _)
RefExIndex(h, refs) ==
    IF refs = <<>> THEN <<>>
    ELSE LET prev == RefExIndex(h, SubSeq(refs, 1, Len(refs) - 1))
             a == refs[Len(refs)].ref
         IN  IF Has(h[a], "article_id") THEN RefPut(h, prev, h[a]["article_id"], a)
             ELSE prev

\* for art in new.get("articles", []): ex_index[aid] = {**ex_index.get(aid, {}), **art},
\* a new dict object each time
RECURSIVE RefMergeArticles(_, _, _)
RefMergeArticles(h, idx, news) ==
    IF news = <<>> THEN [heap |-> h, idx |-> idx]
    ELSE LET prev == RefMergeArticles(h, idx, SubSeq(news, 1, Len(news) - 1))
             art == prev.heap[news[Len(news)].ref]
             aid == Get(art, "article_id", None)
             merged == MergedArticle(RefGet(prev.heap, prev.idx, aid), art)
             h2 == Append(prev.heap, merged)
         IN  IF Falsy(aid) THEN prev
             ELSE [heap |-> h2, idx |-> RefPut(h2, prev.idx, aid, Len(h2))]

\* sorted(ex_index.values(), key=...): a new list of the same references; the
\* dicts of ex_index differ in their article_id
SortedRefs(h, idx) ==
    LET sorted == SortedByNatkey([i \in 1..Len(idx) |-> h[idx[i].ref]])
    IN  [i \in 1..Len(sorted) |->
            idx[CHOOSE j \in 1..Len(idx) : h[idx[j].ref] = sorted[i]]]

\* out["articles"] = the sorted list, a new list object; return out
SetArticles(st, o) ==
    [heap |-> Put(Append(st.heap, SortedRefs(st.heap, st.idx)), o,
                  DictSet(st.heap[o], "articles", Ref(Len(st.heap) + 1))),
     raised |-> FALSE, at |-> o]

\* out["domains"] = ..., then the articles merged by article_id
MergeArticlesOf(h, o, new) ==
    SetArticles(RefMergeArticles(h, RefExIndex(h, ArticleRefs(h, h[o])),
                                 ArticleRefs(h, h[new])), o)

MergeInto(h, o, new) ==
    MergeArticlesOf(Put(h, o, DictSet(h[o], "domains", MergedDomains(h[o], h[new]))), o, new)

\* merge_rulepacks(existing, new) on the objects of h: the objects after the
\* call and the address of the dict returned, or the exception raised
merge_rulepacks_objects(h, existing, new) ==
    LET out == CopyOut(h, existing)
        o == out.at
        h1 == Put(out.heap, o, TopDefault(out.heap[o], "id", Get(out.heap[new], "id", None)))
        h2 == Put(h1, o, TopDefault(h1[o], "jurisdiction", Get(h1[new], "jurisdiction", <<>>)))
    IN  IF Get(h2[o], "id", <<>>) = None THEN [heap |-> h2, raised |-> TRUE, at |-> 0]
        ELSE MergeInto(Put(h2, o, TopDefault(h2[o], "name",
                                             Get(h2[new], "name", Upper(Get(h2[o], "id", <<>>))))),
                       o, new)

\* bound: the articles of existing and of new together
MaxStored == 2

\* the articles of the two arguments: two with one id, a partial one among
\* them, one with an id that sorts behind, one without an id, one with an
\* empty id
StoredArticles == {ArtFull2a, ArtPart2, ArtFull10, ArtNoId, ArtEmptyId}

\* the objects of existing and of new before the call; same is the call
\* merge_rulepacks(rp, rp) with one object for both
FrameInit ==
    /\ rp_path = [exists |-> FALSE, content |-> EmptyDict]
    /\ rp_new = EmptyDict
    /\ rp_old = EmptyDict
    /\ rp_merged = EmptyDict
    /\ pc = "start"
    /\ IndexIdle
    /\ runs = NoRuns
    /\ doc = <<>>
    /\ segs = NotCalled
    /\ GenIdle /\ LoopIdle
    /\ \E n \in 0..MaxStored : \E arts \in [1..n -> StoredArticles] :
         \E top \in ExistingTops \ {TopBlank} :
         \E m \in 0..(MaxStored - n) : \E news \in [1..m -> StoredArticles] :
          \E ntop \in NewTops : \E same \in BOOLEAN :
           LET new == WithArticles(ntop, news)
               ex == Store(<<>>, WithArticles(top, arts))
               nw == IF same THEN ex ELSE Store(ex.heap, new)
           IN  /\ objs = nw.heap
               /\ call = [called |-> FALSE, existing |-> ex.at, new |-> nw.at]

\* merge_rulepacks(existing, new)
MergeObjects ==
    /\ ~call.called
    /\ LET r == merge_rulepacks_objects(objs, call.existing, call.new)
       IN  /\ objs' = r.heap
           /\ call' = [called |-> TRUE, existing |-> call.existing, new |-> call.new,
                       before |-> objs, raised |-> r.raised, out |-> r.at]
    /\ UNCHANGED <<rp_path, mergeVars, indexVars, serveVars, runs, segVars,
                   genVars, loopVars>>

FrameNext == MergeObjects

SpecFrame == FrameInit /\ [][FrameNext]_vars

-----------------------------------------------------------------------------
(* Properties of merge_rulepacks and of the merge run *)

OldArts == Get(rp_old, "articles", <<>>)
NewArts == Get(rp_new, "articles", <<>>)
MergedArts == Get(rp_merged, "articles", <<>>)

ArticleFields == {"article_id", "title", "text", "domain", "confidence"}
TopFields == {"id", "jurisdiction", "name", "domains"}

\* positions of the articles of arts that carry the id x
WithId(arts, x) ==
    {i \in 1..Len(arts) : Has(arts[i], "article_id") /\ arts[i]["article_id"] = x}

\* the ids carried by the articles of arts
ArtIds(arts) == {arts[i]["article_id"] : i \in {j \in 1..Len(arts) : Has(arts[j], "article_id")}}

MaxOf(S) == CHOOSE i \in S : \A j \in S : j <= i

UniqueIds(arts) ==
    \A i, j \in 1..Len(arts) :
        i # j /\ Has(arts[i], "article_id") /\ Has(arts[j], "article_id")
            => arts[i]["article_id"] # arts[j]["article_id"]

\* field-level last-write-wins for the article r of the result: a field comes from
\* the last article among the positions news of the incoming list that has it, else
\* from the last existing article with that id, else it is absent
FieldsLastWriteWins(r, news) ==
    LET olds == WithId(OldArts, r["article_id"])
    IN  \A f \in ArticleFields :
            LET src == {i \in news : Has(NewArts[i], f)}
            IN  IF src # {} THEN Has(r, f) /\ r[f] = NewArts[MaxOf(src)][f]
                ELSE IF olds # {} /\ Has(OldArts[MaxOf(olds)], f)
                     THEN Has(r, f) /\ r[f] = OldArts[MaxOf(olds)][f]
                ELSE ~Has(r, f)

\* C1: merge_rulepacks is idempotent: merging the existing rule-pack with the result
\* of a merge gives that result again, top-level fields, articles, their fields and
\* their order included.
C1_Idempotent ==
    pc = "merged" => merge_rulepacks(rp_old, rp_merged) = rp_merged

C1_Witness ==
    /\ pc = "merged"
    /\ Len(MergedArts) >= 2
    /\ ArtIds(OldArts) \cap ArtIds(NewArts) \notin {{}, {<<>>}}
    /\ ArtIds(NewArts) \ (ArtIds(OldArts) \cup {<<>>}) # {}

\* C2 as stated: the ids of the result are the union of the ids of the existing and
\* of the incoming articles, and every article of the result follows field-level
\* last-write-wins over the incoming articles with its id.
C2_UnionOfAllIds ==
    pc = "merged" =>
        /\ ArtIds(MergedArts) = ArtIds(OldArts) \cup ArtIds(NewArts)
        /\ \A k \in 1..Len(MergedArts) :
               FieldsLastWriteWins(MergedArts[k], WithId(NewArts, MergedArts[k]["article_id"]))

\* C2 (amended): an incoming article whose article_id is missing or empty is skipped;
\* the ids of the result are the ids of the existing articles and the non-empty ids
\* of the incoming ones, and every article of the result follows field-level
\* last-write-wins over the incoming articles with its (non-empty) id.
C2_FieldLastWriteWins ==
    pc = "merged" =>
        /\ ArtIds(MergedArts) = ArtIds(OldArts) \cup (ArtIds(NewArts) \ {<<>>})
        /\ \A k \in 1..Len(MergedArts) :
               /\ Has(MergedArts[k], "article_id")
               /\ FieldsLastWriteWins(MergedArts[k],
                      IF MergedArts[k]["article_id"] = <<>> THEN {}
                      ELSE WithId(NewArts, MergedArts[k]["article_id"]))

C2_Witness ==
    /\ pc = "merged"
    /\ \E i \in 1..Len(OldArts), j \in 1..Len(NewArts) :
           /\ Has(OldArts[i], "article_id") /\ Has(NewArts[j], "article_id")
           /\ OldArts[i]["article_id"] = NewArts[j]["article_id"]
           /\ Has(OldArts[i], "domain") /\ ~Has(NewArts[j], "domain")
           /\ Has(NewArts[j], "title") /\ Has(OldArts[i], "title")
           /\ NewArts[j]["title"] # OldArts[i]["title"]
    /\ <<>> \in ArtIds(NewArts) \ ArtIds(MergedArts)

\* The natural order of the claim, stated on the id itself: the id is cut into its
\* maximal runs of digits and of other characters; runs are compared one by one,
\* two digit runs by their value, two text runs by code point; an id that ends
\* first is the smaller one, and where a digit run meets a text run the digit run
\* is the smaller one.
RECURSIVE NaturalRuns(_)
NaturalRuns(s) ==
    IF s = <<>> THEN <<>>
    ELSE LET k == CHOOSE n \in 1..Len(s) :
                      /\ \A i \in 1..n : (s[i] \in Digits) = (s[1] \in Digits)
                      /\ n = Len(s) \/ (s[n + 1] \in Digits) # (s[1] \in Digits)
         IN  <<SubSeq(s, 1, k)>> \o NaturalRuns(SubSeq(s, k + 1, Len(s)))

RECURSIVE RunValue(_, _)
RunValue(run, acc) ==
    IF run = <<>> THEN acc
    ELSE RunValue(Tail(run),
                  10 * acc + (CHOOSE d \in 0..9 :
                                  <<"0", "1", "2", "3", "4", "5", "6", "7", "8", "9">>[d + 1] = run[1]))

IsNumberRun(run) == run[1] \in Digits

RECURSIVE RunsLess(_, _)
RunsLess(ra, rb) ==
    IF ra = <<>> THEN rb # <<>>
    ELSE IF rb = <<>> THEN FALSE
    ELSE LET t == ra[1]
             u == rb[1]
         IN  IF IsNumberRun(t) /\ IsNumberRun(u)
             THEN IF RunValue(t, 0) = RunValue(u, 0) THEN RunsLess(Tail(ra), Tail(rb))
                  ELSE RunValue(t, 0) < RunValue(u, 0)
             ELSE IF IsNumberRun(t) # IsNumberRun(u) THEN IsNumberRun(t)
             ELSE IF t = u THEN RunsLess(Tail(ra), Tail(rb))
             ELSE StrLess(t, u)

NaturalLess(a, b) == RunsLess(NaturalRuns(a), NaturalRuns(b))

\* the ids of sorted(articles, key=_natkey) for articles that carry the ids given
SortedIds(ids) ==
    LET arts == [i \in 1..Len(ids) |-> [article_id |-> ids[i]]]
        out == SortedByNatkey(arts)
    IN  [i \in 1..Len(out) |-> out[i]["article_id"]]

\* the two examples of the claim, as the sort of the code orders them
SortsDottedExample ==
    SortedIds(<< <<"2">>, <<"1", ".", "1", "0">>, <<"1", ".", "2">> >>)
        = << <<"1", ".", "2">>, <<"1", ".", "1", "0">>, <<"2">> >>

SortsListExample ==
    SortedIds(<< <<"2">>, <<"1", "0">>, <<"1", ".", "1">>, <<"1", ".", "2">> >>)
        = << <<"1", ".", "1">>, <<"1", ".", "2">>, <<"2">>, <<"1", "0">> >>

\* C3: the articles of a merged rule-pack are in natural key order of article_id:
\* no article is followed by one whose id is naturally smaller; "1.2" < "1.10" < "2",
\* and the ids "2", "10", "1.1", "1.2" come out as "1.1", "1.2", "2", "10".
C3_NaturalOrder ==
    /\ pc = "merged" =>
           \A i, j \in 1..Len(MergedArts) :
               i < j => ~NaturalLess(MergedArts[j]["article_id"], MergedArts[i]["article_id"])
    /\ SortsDottedExample
    /\ SortsListExample

C3_Witness ==
    /\ pc = "merged"
    /\ \E i, j \in 1..Len(MergedArts) :
           /\ i < j
           /\ MergedArts[i]["article_id"] = <<"2">>
           /\ MergedArts[j]["article_id"] = <<"1", "0">>
    /\ \E i, j \in 1..Len(NewArts) :
           /\ i < j
           /\ Get(NewArts[i], "article_id", None) = <<"1", "0">>
           /\ Get(NewArts[j], "article_id", None) = <<"2">>

\* a top-level field that is present and not empty
PresentNonEmpty(d, f) == Has(d, f) /\ d[f] # <<>> /\ d[f] # None

\* C4 as stated: each of id, jurisdiction, name and domains is the value of existing
\* when existing has it present and non-empty, and otherwise the value of incoming
\* (checked where incoming has the field).
C4_ExistingWinsWhenNonEmpty ==
    pc = "merged" =>
        \A f \in TopFields :
            IF PresentNonEmpty(rp_old, f) THEN rp_merged[f] = rp_old[f]
            ELSE Has(rp_new, f) => rp_merged[f] = rp_new[f]

\* C4 (amended): id, jurisdiction and name are the value of existing whenever
\* existing has the key, empty or not, and otherwise the value of incoming, or
\* None, "" and the upper-cased id when incoming has none; domains is the value of
\* existing when present and non-empty, and otherwise that of incoming, or [].
C4_ExistingWinsWhenPresent ==
    pc = "merged" =>
        /\ rp_merged["id"] = Get(rp_old, "id", Get(rp_new, "id", None))
        /\ rp_merged["jurisdiction"]
               = Get(rp_old, "jurisdiction", Get(rp_new, "jurisdiction", <<>>))
        /\ rp_merged["name"]
               = Get(rp_old, "name", Get(rp_new, "name", Upper(rp_merged["id"])))
        /\ rp_merged["domains"]
               = IF Has(rp_old, "domains") /\ rp_old["domains"] # <<>>
                 THEN rp_old["domains"] ELSE Get(rp_new, "domains", <<>>)

C4_Witness ==
    /\ pc = "merged"
    /\ Has(rp_old, "jurisdiction") /\ rp_old["jurisdiction"] = <<>>
    /\ Has(rp_new, "jurisdiction") /\ rp_new["jurisdiction"] # <<>>
    /\ Has(rp_old, "domains") /\ rp_old["domains"] = <<>>
    /\ rp_merged["jurisdiction"] = <<>>

\* a rule-pack of the data model: the five fields, every article with its id, no id twice
WellFormed(rp) ==
    /\ TopFields \cup {"articles"} \subseteq DOMAIN rp
    /\ rp["id"] # None
    /\ \A i \in 1..Len(rp["articles"]) : Has(rp["articles"][i], "article_id")
    /\ UniqueIds(rp["articles"])

C6_UniqueArticleIds ==
    /\ pc = "merged" => UniqueIds(MergedArts)
    /\ pc = "written" => UniqueIds(rp_path.content["articles"])

\* a later run (the name "R" in the file was set by an earlier one) whose incoming
\* rule-pack carries one id twice, on a file that has the id already
C6_Witness ==
    /\ pc = "merged"
    /\ rp_path.exists /\ Get(rp_path.content, "name", None) = <<"R">>
    /\ \E i, j \in 1..Len(NewArts) :
           /\ i # j
           /\ Has(NewArts[i], "article_id") /\ Has(NewArts[j], "article_id")
           /\ NewArts[i]["article_id"] = NewArts[j]["article_id"]
           /\ NewArts[i]["article_id"] \in ArtIds(OldArts)

\* a rule-pack as build_rulepack composes it: the five top-level fields, and
\* articles that carry the five article fields and a non-empty id
Generated(rp) ==
    /\ TopFields \cup {"articles"} \subseteq DOMAIN rp
    /\ rp["id"] # None
    /\ \A i \in 1..Len(rp["articles"]) :
           /\ DOMAIN rp["articles"][i] = ArticleFields
           /\ rp["articles"][i]["article_id"] # <<>>

\* the run that finds no rule-pack file
FileMissing == ~rp_path.exists

\* C7 as stated: with the file missing the run does not fail, and the merge yields
\* the incoming id, jurisdiction, name and domains and the incoming articles in
\* natural key order.
C7_MissingFileYieldsIncomingArticles ==
    (FileMissing /\ Generated(rp_new)) =>
        /\ pc # "failed"
        /\ pc = "merged" =>
               /\ \A f \in TopFields : rp_merged[f] = rp_new[f]
               /\ {MergedArts[i] : i \in 1..Len(MergedArts)}
                      = {NewArts[i] : i \in 1..Len(NewArts)}
               /\ \A i, j \in 1..Len(MergedArts) :
                      i < j => ~NaturalLess(MergedArts[j]["article_id"],
                                            MergedArts[i]["article_id"])

\* C7 (amended): with the file missing the run does not fail; the base is the empty
\* rule-pack, and the merge yields the incoming id, jurisdiction, name and domains
\* and, for each distinct incoming article_id, one article, the field-wise
\* last-write-wins merge of the incoming articles with that id, in natural key order.
C7_MissingFileIsEmptyBase ==
    (FileMissing /\ Generated(rp_new)) =>
        /\ pc # "failed"
        /\ pc \in {"loaded", "merged"} => rp_old = EmptyDict
        /\ pc = "merged" =>
               /\ \A f \in TopFields : rp_merged[f] = rp_new[f]
               /\ ArtIds(MergedArts) = ArtIds(NewArts)
               /\ UniqueIds(MergedArts)
               /\ \A k \in 1..Len(MergedArts) :
                      FieldsLastWriteWins(MergedArts[k],
                                          WithId(NewArts, MergedArts[k]["article_id"]))
               /\ \A i, j \in 1..Len(MergedArts) :
                      i < j => ~NaturalLess(MergedArts[j]["article_id"],
                                            MergedArts[i]["article_id"])

C7_Witness ==
    /\ FileMissing /\ Generated(rp_new) /\ pc = "merged"
    /\ Len(MergedArts) = 2
    /\ Len(NewArts) = 3
    /\ NewArts[1]["article_id"] = <<"1", "0">>

-----------------------------------------------------------------------------
(* Properties of build_index main and of RegulatorSearcher.search *)

SourceArts == rp_path.content["articles"]

Returned == last.called /\ last.error = ""

Ranks(out) == {out[r].rank : r \in 1..Len(out)}

\* C8: for an index of n >= 1 articles and k >= 1, search(text, k) returns
\* exactly min(k, n) hits whose ranks are exactly 1..min(k, n); with k above
\* the number of indexed articles the result has as many hits as articles.
C8_ReturnsMinOfKAndN ==
    (searcher.ready /\ Returned /\ Len(searcher.index) >= 1) =>
        LET m == Min(last.k, Len(searcher.index))
        IN  /\ Len(last.out) = m
            /\ \A r \in 1..Len(last.out) : last.out[r].rank = r
            /\ Ranks(last.out) = 1..m

\* the article search took for the label i of the index
Matched(i) == ListIndex(searcher.mapping, i)

PrefixOf(text, limit) == [j \in 1..Min(limit, Len(text)) |-> text[j]]

\* C9: every hit carries the prefix of length min(4000, length) of the text
\* of the article it matched, never more than 4000 characters, and search
\* does not fail on any article of the mapping.
C9_PreviewIsPrefixAndSearchNeverFails ==
    (searcher.ready /\ last.called) =>
        /\ last.error = ""
        /\ \A r \in 1..Len(last.out) :
              /\ Len(last.out[r].text) <= 4000
              /\ last.out[r].text =
                     PrefixOf(Matched(last.labels[r])["text"], 4000)

\* title_i and text_i of an article, '' when the article has none
TitleOf(a) == IF Has(a, "title") THEN a["title"] ELSE <<>>

TextOf(a) == IF Has(a, "text") THEN a["text"] ELSE <<>>

\* C10: after a completed build over a_0..a_(n-1) the index holds exactly n
\* vectors and the mapping exactly n entries; the vector of row i is the
\* embedding of title_i + "\n\n" + text_i and the mapping entry i is a_i, in
\* the insertion order of the articles.
C10_IndexAndMappingInInsertionOrder ==
    bpc = "done" =>
        /\ index_file.exists /\ mapping_file.exists
        /\ Len(index_file.vectors) = Len(SourceArts)
        /\ Len(mapping_file.articles) = Len(SourceArts)
        /\ \A i \in 1..Len(SourceArts) :
              /\ index_file.vectors[i] =
                     Embed(TitleOf(SourceArts[i]) \o <<"\n", "\n">> \o TextOf(SourceArts[i]))
              /\ mapping_file.articles[i] = SourceArts[i]

\* a completed build over two articles that are not in natural order of
\* their ids and whose embeddings differ
C10_Witness ==
    /\ bpc = "done"
    /\ Len(SourceArts) = 2
    /\ KeyLess(ArticleKey(SourceArts[2]), ArticleKey(SourceArts[1]), 1)
    /\ index_file.vectors[1] # index_file.vectors[2]

\* the index and the mapping of the pair come from one build: the rows are
\* the embeddings of the texts of the mapping's articles, in order
SameBuild(index, mapping) == index = Encode(Texts(mapping))

\* C11: index and mapping are persisted as one unit: whenever a rebuild is
\* interrupted, or a searcher loads while the rebuild writes, the index file
\* and the mapping file on disk, and the pair a searcher has loaded, come
\* from the same build.
C11_IndexAndMappingAreOneUnit ==
    /\ (index_file.exists /\ mapping_file.exists) =>
           SameBuild(index_file.vectors, mapping_file.articles)
    /\ searcher.ready => SameBuild(searcher.index, searcher.mapping)

\* C12: a searcher never answers a search from an index whose vector count
\* differs from the length of its mapping: the pair is rejected and no hit is
\* returned from it.
C12_NoHitFromMismatchedPair ==
    (searcher.ready /\ Len(searcher.index) # Len(searcher.mapping)) =>
        ~(Returned /\ Len(last.out) > 0)

-----------------------------------------------------------------------------
(* Properties of the serving process *)

Indexed(ns) == Disk[ns].index.exists /\ Disk[ns].mapping.exists

Active == heap[pipeline.searcher]

\* C13: when the index file or the mapping file of a namespace is missing,
\* creating the searcher for it fails with an error, no searcher for that
\* namespace becomes ready and no search on it returns a result, not even
\* an empty list.
C13_MissingFilesFailFast ==
    /\ (reply.op \in {"init", "set_regulator"} /\ ~Indexed(reply.ns)) => reply.error # ""
    /\ \A i \in 1..Len(heap) : Indexed(heap[i].ns)
    /\ pipeline.constructed => Indexed(Active.ns)
    /\ flight.running => Indexed(heap[flight.self].ns)
    /\ reply.op = "run" => Indexed(reply.ns)

\* the pipeline was created for a namespace no build ever ran for: creating
\* its searcher raised and nothing came to exist
C13_Witness ==
    /\ reply.op = "init"
    /\ ~Disk[reply.ns].index.exists
    /\ reply.error = "FileNotFoundError"
    /\ ~pipeline.constructed
    /\ heap = <<>>

\* C14: after set_regulator(ns_b) on a pipeline that is ready for ns_a, with
\* ns_b indexed, the pipeline is ready for ns_b and searches the index and the
\* mapping of ns_b; a switch to the active namespace changes nothing.
C14_SwitchMakesReadyForNamespace ==
    (pipeline.constructed /\ reply.op = "set_regulator" /\ Indexed(reply.ns)) =>
        /\ reply.error = ""
        /\ Active.ns = reply.ns
        /\ Active.index = Disk[reply.ns].index.vectors
        /\ Active.mapping = Disk[reply.ns].mapping.articles

\* a step of set_regulator(ns)
SwitchStep(ns) ==
    /\ pipeline.constructed
    /\ flight' = flight
    /\ reply'.op = "set_regulator"
    /\ reply'.ns = ns

\* C15: across a namespace switch the embedding model instance is unchanged,
\* and the index, the mapping and the namespace identifier are replaced by
\* those of the new namespace.
C15_SwitchKeepsModelInstance ==
    [][\A ns \in Namespaces :
          (SwitchStep(ns) /\ Indexed(ns) /\ Active.ns # ns) =>
              /\ Active'.model = Active.model
              /\ Active'.ns = ns
              /\ Active'.index = Disk[ns].index.vectors
              /\ Active'.mapping = Disk[ns].mapping.articles]_vars

\* index and mapping are those of one single namespace
OneNamespace(index, mapping) ==
    \E ns \in Namespaces :
        /\ Indexed(ns)
        /\ index = Disk[ns].index.vectors
        /\ mapping = Disk[ns].mapping.articles

-----------------------------------------------------------------------------
(* Properties of merge runs side by side *)

\* C17: two runs that merge into the rule-pack of one namespace never
\* interleave, so that once both have written, the articles written by each
\* are in the rule-pack: none is lost through the write of the other.
C17_NoArticleLostBetweenWriters ==
    (\A w \in Writers : runs[w].pc = "written") =>
        \A w \in Writers :
            ArtIds(runs[w].rp_new["articles"]) \subseteq ArtIds(rp_path.content["articles"])

-----------------------------------------------------------------------------
(* Properties of segment *)

\* the text has a character that is not whitespace
NonSpace(text) == \E i \in 1..Len(text) : ~IsSpace(text[i])

\* what each strategy yields on the text, taken alone
FromHeadings(text) == ArticleSegments(text, FindIter("RE_ARTICLE", text, 0, <<>>), 1)

FromSections(text) == SectionSegments(text, FindIter("RE_SECTION", text, 0, <<>>), 1)

FromWindows(text) == _fixed_windows(text, WinChars, Overlap)

\* the segment is a window: its id is "F" and the number of the window
IsFragment(seg) == seg.article_id[1] = "F"

\* C18: segment returns the empty list exactly when the text is empty or
\* whitespace-only; a text with a character that is not whitespace gets at
\* least one segment, and when neither a heading nor a section is found in
\* it those segments are fixed windows
C18_EmptyOnlyForBlankText ==
    segs.called =>
        /\ (segs.out = <<>>) <=> ~NonSpace(doc)
        /\ (NonSpace(doc) /\ FromHeadings(doc) = <<>> /\ FromSections(doc) = <<>>) =>
               /\ segs.out # <<>>
               /\ \A i \in 1..Len(segs.out) : IsFragment(segs.out[i])

\* a text that starts with a window of spaces and has no heading was cut into
\* windows, the first of them after the spaces
C18_Witness ==
    /\ segs.called
    /\ Len(doc) > WinChars
    /\ \A i \in 1..WinChars : doc[i] = " "
    /\ NonSpace(doc)
    /\ FromHeadings(doc) = <<>>
    /\ segs.out # <<>>
    /\ IsFragment(segs.out[1])
    /\ segs.out[1].start > 0

\* C19: the segments of one call come from a single strategy: the headings
\* if they yield a segment, else the sections if they yield one, else the
\* fixed windows; the first strategy that yields supplies the whole result
C19_FirstYieldingStrategySuppliesAll ==
    (segs.called /\ NonSpace(doc)) =>
        LET h == FromHeadings(doc)
            s == FromSections(doc)
        IN  /\ h # <<>> => segs.out = h
            /\ (h = <<>> /\ s # <<>>) => segs.out = s
            /\ (h = <<>> /\ s = <<>>) => segs.out = FromWindows(doc)

\* the headings yielded the result of a text in which the sections would
\* have yielded segments too
C19_Witness ==
    /\ segs.called
    /\ FromHeadings(doc) # <<>>
    /\ FromSections(doc) # <<>>
    /\ segs.out = FromHeadings(doc)

\* C20: for a text that is not empty (here: with a character that is not
\* whitespace, so that there are segments) the spans [start, end) of the
\* segments are ordered, overlap by no more than the window overlap, and
\* cover the text from its start to its end without a gap larger than the
\* overlap
C20_SpansOrderedAndCovering ==
    (segs.called /\ NonSpace(doc)) =>
        LET out == segs.out
            n == Len(out)
        IN  /\ n > 0
            /\ out[1].start <= Overlap
            /\ Len(doc) - out[n].end <= Overlap
            /\ \A i \in 1..(n - 1) :
                   /\ out[i].start <= out[i + 1].start
                   /\ out[i].end <= out[i + 1].end
                   /\ out[i].end - out[i + 1].start <= Overlap
                   /\ out[i + 1].start - out[i].end <= Overlap

\* the offset in Render(hs) at which the heading line of hs[i] ends
RECURSIVE HeadingEnd(_, _)
HeadingEnd(hs, i) ==
    IF i = 1 THEN Len(HeadingLine(hs[1]))
    ELSE HeadingEnd(hs, i - 1) + 1 + Len(hs[i - 1].body) + 1 + Len(HeadingLine(hs[i]))

\* C21: a document of N headings "Article <id>: <title>", each followed by a
\* body that is not blank and holds no heading line, gives N segments in
\* document order; segment i has the id and the title of heading i, starts
\* at the end of heading i, ends no later than heading i + 1 starts (at the
\* end of the document for the last) and has the body as its text. The
\* Licensing/Capital example gives ids "1", "2" and those two titles.
C21_OneSegmentPerArticleHeading ==
    segs.called =>
        /\ \A hs \in HeadingLists :
               doc = Render(hs) =>
                   /\ Len(segs.out) = Len(hs)
                   /\ \A i \in 1..Len(hs) :
                          LET seg == segs.out[i]
                              next == IF i < Len(hs)
                                      THEN HeadingEnd(hs, i + 1) - Len(HeadingLine(hs[i + 1]))
                                      ELSE Len(doc)
                          IN  /\ seg.article_id = hs[i].id
                              /\ seg.title = Strip(hs[i].title)
                              /\ seg.text = Strip(hs[i].body)
                              /\ seg.start = HeadingEnd(hs, i)
                              /\ seg.end <= next
                              /\ i = Len(hs) => seg.end = Len(doc)
                              /\ Strip(Cut(doc, seg.start, next)) = seg.text
        /\ doc = ExampleText =>
               /\ Len(segs.out) = 2
               /\ segs.out[1].article_id = <<"1">> /\ segs.out[1].title = HeadLicensing.title
               /\ segs.out[2].article_id = <<"2">> /\ segs.out[2].title = HeadCapital.title

\* the Licensing/Capital example, a document of two headings with bodies,
\* was segmented
C21_Witness ==
    /\ segs.called
    /\ doc = ExampleText
    /\ doc = Render(<<HeadLicensing, HeadCapital>>)
    /\ Len(segs.out) = 2

-----------------------------------------------------------------------------
(* Properties of classify_domain and build_rulepack *)

\* C22: each result of classify_domain carries as score the maximum of the
\* row of similarities of its segment, and the domain of the lowest row that
\* has that maximum if the score is at least 0.35, null otherwise, with the
\* score reported in both cases; so the result is a function of the matrix
C22_LowestMaximalRowAndThreshold ==
    labeled.called =>
        \A i \in 1..Len(labeled.out) :
            LET l == labeled.out[i]
                row == LabelSims(st_model, ClassText(l.seg))
            IN  /\ \A k \in LabelRows : row[k] <= l.score
                /\ \E j \in LabelRows :
                       /\ row[j] = l.score
                       /\ \A k \in 1..(j - 1) : row[k] < l.score
                       /\ l.assigned = IF l.score >= Threshold THEN LabelDomain(j) ELSE None

\* a segment whose maximum stands in rows of two domains got the domain of
\* the lower row, and a segment below the threshold got none
C22_Witness ==
    /\ labeled.called
    /\ \E i \in 1..Len(labeled.out) :
           LET l == labeled.out[i]
               row == LabelSims(st_model, ClassText(l.seg))
           IN  \E j, k \in LabelRows :
                   /\ j < k
                   /\ row[j] = l.score /\ row[k] = l.score
                   /\ LabelDomain(j) # LabelDomain(k)
                   /\ l.assigned = LabelDomain(j)
    /\ \E i \in 1..Len(labeled.out) :
           /\ labeled.out[i].score < Threshold
           /\ labeled.out[i].assigned = None

\* the title or the text of the segment holds a character that is not whitespace
NonBlankSeg(s) == NonSpace(OrEmpty(s.title)) \/ NonSpace(OrEmpty(s.text))

KeptIndexes == {i \in 1..Len(cin) : NonBlankSeg(cin[i])}

\* the i-th of the kept input positions
KeptIndex(i) == CHOOSE x \in KeptIndexes : Cardinality({y \in KeptIndexes : y <= x}) = i

\* C23: classify_domain returns one result for each input segment whose
\* title or text holds a character that is not whitespace and none for the
\* others, in input order; result i holds the i-th kept segment with the
\* domain and the score of the similarities of that segment's text
C23_OneResultPerNonBlankSegmentInOrder ==
    labeled.called =>
        /\ Len(labeled.out) = Cardinality(KeptIndexes)
        /\ \A i \in 1..Len(labeled.out) :
               LET s == cin[KeptIndex(i)]
               IN  /\ labeled.out[i].seg = s
                   /\ labeled.out[i] = LabeledSegment(s, LabelSims(st_model, ClassText(s)))

\* a blank segment in front of another one was dropped, and the other one
\* got the result of its own text
C23_Witness ==
    /\ labeled.called
    /\ Len(cin) = 2
    /\ ~NonBlankSeg(cin[1])
    /\ NonBlankSeg(cin[2])
    /\ Len(labeled.out) = 1
    /\ labeled.out[1].seg = cin[2]

\* the articles of the rule-pack build_rulepack returned
BuiltArts == built.out.articles

\* C24: every article build_rulepack emits has a confidence from 0 to 1
\* (0 to 1000 thousandths)
C24_ConfidenceInUnitRange ==
    built.called =>
        \A i \in 1..Len(BuiltArts) :
            BuiltArts[i].confidence >= 0 /\ BuiltArts[i].confidence <= 1000

\* the number of segments of the documents in front of document d
RECURSIVE SegmentsBefore(_)
SegmentsBefore(d) ==
    IF d = 1 THEN 0 ELSE SegmentsBefore(d - 1) + Len(segment(doc_texts[d - 1]))

\* C29: every segment of a document has a text with a character that is
\* not whitespace and offsets 0 <= start <= end <= len(text); so
\* classify_domain drops none of them, and build_rulepack emits one article
\* for each segment, in the order of doc_texts and of the segments of a document
C29_OneArticlePerSegment ==
    /\ \A d \in 1..Len(doc_texts) :
           LET out == segment(doc_texts[d])
           IN  \A i \in 1..Len(out) :
                   /\ NonSpace(out[i].text)
                   /\ out[i].text = Strip(out[i].text)
                   /\ 0 <= out[i].start
                   /\ out[i].start <= out[i].end
                   /\ out[i].end <= Len(doc_texts[d])
    /\ labeled.called =>
           /\ Len(labeled.out) = Len(cin)
           /\ \A i \in 1..Len(cin) : labeled.out[i].seg = cin[i]
    /\ built.called =>
           /\ Len(BuiltArts) = SegmentsBefore(Len(doc_texts) + 1)
           /\ \A d \in 1..Len(doc_texts) :
                  LET out == segment(doc_texts[d])
                  IN  \A i \in 1..Len(out) :
                          LET art == BuiltArts[SegmentsBefore(d) + i]
                          IN  /\ art.article_id = out[i].article_id
                              /\ art.title = out[i].title
                              /\ art.text = out[i].text

\* build_rulepack returned the articles of two documents, the first of
\* them with several segments
C29_Witness ==
    /\ built.called
    /\ Len(doc_texts) = 2
    /\ Len(segment(doc_texts[1])) >= 2
    /\ Len(segment(doc_texts[2])) >= 1
    /\ Len(BuiltArts) = Len(segment(doc_texts[1])) + Len(segment(doc_texts[2]))

-----------------------------------------------------------------------------
(* The round trip of build_index main and RegulatorSearcher.search *)

\* the score of a vector with itself: the cosine 1.0
FullScore == Dot(UnitVectors[1], UnitVectors[1])

\* C25: a search whose query text is the text of an indexed article embeds
\* the string that was embedded for that article when the index was built,
\* and returns that article at rank 1 with a score of 1.0
C25_QueryWithArticleTextFindsIt ==
    (searcher.ready /\ last.called /\ last.error = "") =>
        \A i \in 1..Len(searcher.mapping) :
            Get(searcher.mapping[i], "text", None) = last.text =>
                /\ Texts(searcher.mapping)[i] = last.text
                /\ Len(last.out) >= 1
                /\ last.out[1].rank = 1
                /\ last.out[1].text = Slice(last.text, PreviewLimit)
                /\ last.out[1].score = FullScore

-----------------------------------------------------------------------------
(* Properties of the section fallback and of the fixed windows *)

\* the id, title and text of paragraph k of the section: "N.k", the section
\* title with " (part k)" behind it from the second paragraph on
ParagraphSegment(sec, k) ==
    [article_id |-> sec.num \o <<".">> \o Str(k),
     title |-> IF k = 1 THEN sec.title
               ELSE sec.title \o <<" ", "(", "p", "a", "r", "t", " ">> \o Str(k) \o <<")">>,
     text |-> sec.paras[k]]

\* the paragraphs of the sections ss in document order
RECURSIVE ParagraphSegments(_)
ParagraphSegments(ss) ==
    IF ss = <<>> THEN <<>>
    ELSE [k \in 1..Len(ss[1].paras) |-> ParagraphSegment(ss[1], k)]
         \o ParagraphSegments(Tail(ss))

\* C26: in a document of sections "Section N: Title" the k-th paragraph of
\* section N is a segment of its own with the id "N.k" and the section
\* title, followed by " (part k)" for k > 1, and the segments follow the
\* order of the sections and of their paragraphs
C26_SectionParagraphsNumbered ==
    segs.called =>
        \A ss \in SectionLists :
            doc = RenderSections(ss) =>
                LET want == ParagraphSegments(ss)
                IN  /\ Len(segs.out) = Len(want)
                    /\ \A i \in 1..Len(want) :
                           /\ segs.out[i].article_id = want[i].article_id
                           /\ segs.out[i].title = want[i].title
                           /\ segs.out[i].text = want[i].text

\* a document of a section of three paragraphs and a section of two was
\* segmented into five paragraphs
C26_Witness ==
    /\ segs.called
    /\ doc = RenderSections(<<SecThreeParas, SecTwoParas>>)
    /\ Len(segs.out) = 5
    /\ segs.out[3].article_id = <<"4", ".", "3">>
    /\ segs.out[5].article_id = <<"3", ".", "2">>

\* C27: when the fixed windows supply the segments, every window of the loop
\* spans at most 2000 characters, the first starts at 0, each later one
\* starts exactly 200 characters before the end of the one before it, and
\* the last ends at the end of the text; the segments are the windows with
\* text other than whitespace, in window order, and their ids are F1, F2, ...
\* with no number left out
C27_WindowsOverlapAndIdsConsecutive ==
    (segs.called /\ segs.out # <<>> /\ IsFragment(segs.out[1])) =>
        LET w == WindowSpans(Len(doc), WinChars, Overlap, 0)
            Kept27(x) == Strip(Cut(doc, x.start, x.end)) # <<>>
            emitted == SelectSeq(w, Kept27)
        IN  /\ Len(w) >= 1
            /\ w[1].start = 0
            /\ w[Len(w)].end = Len(doc)
            /\ \A i \in 1..Len(w) : w[i].end - w[i].start <= WinChars
            /\ \A i \in 2..Len(w) : w[i].start = w[i - 1].end - Overlap
            /\ Len(segs.out) = Len(emitted)
            /\ \A i \in 1..Len(segs.out) :
                   /\ segs.out[i].article_id = <<"F">> \o Str(i)
                   /\ segs.out[i].start = emitted[i].start
                   /\ segs.out[i].end = emitted[i].end
                   /\ segs.out[i].text = Strip(Cut(doc, emitted[i].start, emitted[i].end))

\* a text of two windows was cut: the second window starts 200 characters
\* before the end of the first and ends with the text
C27_Witness ==
    /\ segs.called
    /\ Len(doc) > WinChars
    /\ Len(segs.out) = 2
    /\ segs.out[1].article_id = <<"F", "1">>
    /\ segs.out[1].end = WinChars
    /\ segs.out[2].article_id = <<"F", "2">>
    /\ segs.out[2].start = WinChars - Overlap
    /\ segs.out[2].end = Len(doc)

-----------------------------------------------------------------------------
(* Properties of the window loops *)

\* C30: the loops of _fixed_windows (window 2000, overlap 200) and of
\* split_into_chunks (window 4000, overlap 600), and the same loops with any
\* window greater than the overlap, terminate: from one iteration to the
\* next the window start strictly increases, every call returns, and a loop
\* that ran ends with a window that reaches the end of the text
C30_WindowLoopsTerminate ==
    /\ [][(loop.at = "while" /\ loop'.at = "while") => loop'.start > loop.start]_vars
    /\ []((loop.at = "return" /\ loop.entered) => loop.end = loop.n)
    /\ <>(loop.at = "return")

\* split_into_chunks returned from a text of several windows of 4000
\* characters, the last of them up to the end of the text
C30_Witness ==
    /\ loop.running
    /\ loop.fn = "split_into_chunks"
    /\ loop.win = TargetChars /\ loop.overlap = OverlapChars
    /\ loop.at = "return"
    /\ loop.start > TargetChars
    /\ loop.end = loop.n

-----------------------------------------------------------------------------
(* Properties of merge_rulepacks on objects *)

\* C28: merge_rulepacks does not modify its arguments: after the call the
\* existing and the incoming rule-pack dict, their article lists and every
\* article dict in them hold the keys and values they held before the call
C28_ArgumentsNotModified ==
    call.called =>
        /\ \A a \in 1..Len(call.before) : objs[a] = call.before[a]
        /\ Value(objs, call.existing) = Value(call.before, call.existing)
        /\ Value(objs, call.new) = Value(call.before, call.new)

\* a call returned the merge of two rule-packs with articles, one of them
\* under an id that both hold
C28_Witness ==
    /\ call.called /\ ~call.raised
    /\ call.existing # call.new
    /\ Has(objs[call.existing], "articles") /\ Has(objs[call.new], "articles")
    /\ \E x \in 1..Len(Value(objs, call.existing)["articles"]) :
          \E y \in 1..Len(Value(objs, call.new)["articles"]) :
             /\ Has(Value(objs, call.existing)["articles"][x], "article_id")
             /\ Get(Value(objs, call.new)["articles"][y], "article_id", None)
                   = Value(objs, call.existing)["articles"][x]["article_id"]
             /\ Value(objs, call.new)["articles"][y]
                   # Value(objs, call.existing)["articles"][x]
    /\ Value(objs, call.out)
          = merge_rulepacks(Value(call.before, call.existing), Value(call.before, call.new))

====
